---- MODULE Spec2Model ----
(***************************************************************************)
(* Model of the Feishu synchronisation engine of promptgenie               *)
(* (src-tauri/src/feishu_sync.rs): the planner calculate_sync_plan, the    *)
(* paginated reader list_all_records, the two batch writers and the two    *)
(* orchestrator commands trigger_sync and sync_with_local_data.            *)
(*                                                                         *)
(* A PromptRecord is modelled by the fields the planner and the            *)
(* orchestrator read: id, updated_at and record_id.  The field codec is    *)
(* modelled on records with all their fields (FullRecord, EncodeRecord,    *)
(* ParseRecordFromFeishu).                                                 *)
(*                                                                         *)
(* Specifications: Spec (the two commands), SpecPlan (the planner on any   *)
(* two snapshots), SpecList (the reader on any table), SpecEnvelope (each  *)
(* remote operation on any response body), SpecCodec (the field codec).    *)
(* Option<T> is a sequence of length at most one: None is << >> and        *)
(* Some(x) is <<x>>.                                                       *)
(***************************************************************************)
EXTENDS Integers, Sequences, FiniteSets, TLC

\* ------------------------------------------------------------------------
\* Bounds and value domains of the model
\* ------------------------------------------------------------------------
\* Longest local snapshot given to the planner on its own.
MaxLocal == 1
\* Longest remote snapshot given to the planner on its own, and longest remote
\* table a command starts from.
MaxRemote == 2
\* Rows the remote service puts in one page of a list response.
PageRows == 1

\* Record ids (client-generated UUID strings in the program).
Ids == {"a", "b"}
\* Values of updated_at.  The planner only compares two timestamps, and three
\* values give every order of a local record against two remote rows.
Times == {1, 2, 3}

None == << >>
Some(x) == <<x>>
IsSome(o) == Len(o) = 1
Unwrap(o) == o[1]

\* PromptRecord: id, updated_at, record_id (Option<String>, the remote key).
PromptRecord(id, updated_at, record_id) ==
    [id |-> id, updated_at |-> updated_at, record_id |-> record_id]

\* record_id values of the records given to the planner on their own: a remote
\* record has a record_id or none; a local record carries none, the one of its
\* remote row, or another one.
RemoteKeys == {None, Some(1)}
LocalKeys == {None, Some(1), Some(2)}

LocalRecords ==
    {PromptRecord(i, u, k) : i \in Ids, u \in Times, k \in LocalKeys}
RemoteRecords ==
    {PromptRecord(i, u, k) : i \in Ids, u \in Times, k \in RemoteKeys}

SeqsUpTo(S, n) == UNION {[1..m -> S] : m \in 0..n}

Range(s) == {s[i] : i \in 1..Len(s)}

Max(S) == CHOOSE x \in S : \A y \in S : y <= x

\* ------------------------------------------------------------------------
\* calculate_sync_plan
\* ------------------------------------------------------------------------

\* HashMap<String, &PromptRecord> collected from (r.id, r): a later record
\* with the same id replaces the earlier one.
HashMapById(records) ==
    [id \in {records[i].id : i \in 1..Len(records)} |->
        records[Max({i \in 1..Len(records) : records[i].id = id})]]

EmptyPlan ==
    [to_create_local |-> << >>, to_update_local |-> << >>,
     to_create_remote |-> << >>, to_update_remote |-> << >>]

\* Variants of the first loop body with one slip each, used to show that the
\* properties below depend on it.
\* The None arm pushes nothing.
LocalStepNoCreate(plan, local_record, remote_map_by_custom_id) ==
    IF local_record.id \notin DOMAIN remote_map_by_custom_id
    THEN plan
    ELSE LET remote_record == remote_map_by_custom_id[local_record.id] IN
         IF local_record.updated_at > remote_record.updated_at
            /\ IsSome(remote_record.record_id)
         THEN [plan EXCEPT !.to_update_remote =
                   Append(@, <<Unwrap(remote_record.record_id), local_record>>)]
         ELSE plan

\* The update is keyed by the record_id the local record carries.
LocalStepLocalKey(plan, local_record, remote_map_by_custom_id) ==
    IF local_record.id \notin DOMAIN remote_map_by_custom_id
    THEN [plan EXCEPT !.to_create_remote = Append(@, local_record)]
    ELSE LET remote_record == remote_map_by_custom_id[local_record.id] IN
         IF local_record.updated_at > remote_record.updated_at
            /\ IsSome(local_record.record_id)
         THEN [plan EXCEPT !.to_update_remote =
                   Append(@, <<Unwrap(local_record.record_id), local_record>>)]
         ELSE plan

\* The comparison is >= instead of >.
LocalStepGe(plan, local_record, remote_map_by_custom_id) ==
    IF local_record.id \notin DOMAIN remote_map_by_custom_id
    THEN [plan EXCEPT !.to_create_remote = Append(@, local_record)]
    ELSE LET remote_record == remote_map_by_custom_id[local_record.id] IN
         IF local_record.updated_at >= remote_record.updated_at
            /\ IsSome(remote_record.record_id)
         THEN [plan EXCEPT !.to_update_remote =
                   Append(@, <<Unwrap(remote_record.record_id), local_record>>)]
         ELSE plan

\* The record pushed for an update is given the record_id of the remote one.
LocalStepStampsKey(plan, local_record, remote_map_by_custom_id) ==
    IF local_record.id \notin DOMAIN remote_map_by_custom_id
    THEN [plan EXCEPT !.to_create_remote = Append(@, local_record)]
    ELSE LET remote_record == remote_map_by_custom_id[local_record.id] IN
         IF local_record.updated_at > remote_record.updated_at
            /\ IsSome(remote_record.record_id)
         THEN [plan EXCEPT !.to_update_remote =
                   Append(@, <<Unwrap(remote_record.record_id),
                               [local_record EXCEPT
                                   !.record_id = remote_record.record_id]>>)]
         ELSE plan

\* A local record that carries a record_id is not created remotely.
LocalStepTrustsKey(plan, local_record, remote_map_by_custom_id) ==
    IF local_record.id \notin DOMAIN remote_map_by_custom_id
    THEN IF IsSome(local_record.record_id) THEN plan
         ELSE [plan EXCEPT !.to_create_remote = Append(@, local_record)]
    ELSE LET remote_record == remote_map_by_custom_id[local_record.id] IN
         IF local_record.updated_at > remote_record.updated_at
            /\ IsSome(remote_record.record_id)
         THEN [plan EXCEPT !.to_update_remote =
                   Append(@, <<Unwrap(remote_record.record_id), local_record>>)]
         ELSE plan

\* Body of the first loop for one local record.
LocalStep(plan, local_record, remote_map_by_custom_id) ==
    IF local_record.id \notin DOMAIN remote_map_by_custom_id
    THEN [plan EXCEPT !.to_create_remote = Append(@, local_record)]
    ELSE LET remote_record == remote_map_by_custom_id[local_record.id] IN
         IF local_record.updated_at > remote_record.updated_at
         THEN IF IsSome(remote_record.record_id)
              THEN [plan EXCEPT !.to_update_remote =
                        Append(@, <<Unwrap(remote_record.record_id), local_record>>)]
              ELSE plan
         ELSE plan

\* Variants of the second loop body with one slip each.
\* The None arm pushes to the update list.
RemoteStepWrongList(plan, remote_record, local_map) ==
    IF remote_record.id \notin DOMAIN local_map
    THEN [plan EXCEPT !.to_update_local = Append(@, remote_record)]
    ELSE LET local_record == local_map[remote_record.id] IN
         IF remote_record.updated_at > local_record.updated_at
         THEN [plan EXCEPT !.to_update_local = Append(@, remote_record)]
         ELSE plan

\* The comparison is < instead of >.
RemoteStepReversed(plan, remote_record, local_map) ==
    IF remote_record.id \notin DOMAIN local_map
    THEN [plan EXCEPT !.to_create_local = Append(@, remote_record)]
    ELSE LET local_record == local_map[remote_record.id] IN
         IF remote_record.updated_at < local_record.updated_at
         THEN [plan EXCEPT !.to_update_local = Append(@, remote_record)]
         ELSE plan

\* The comparison is # instead of >.
RemoteStepNe(plan, remote_record, local_map) ==
    IF remote_record.id \notin DOMAIN local_map
    THEN [plan EXCEPT !.to_create_local = Append(@, remote_record)]
    ELSE LET local_record == local_map[remote_record.id] IN
         IF remote_record.updated_at # local_record.updated_at
         THEN [plan EXCEPT !.to_update_local = Append(@, remote_record)]
         ELSE plan

\* Body of the second loop for one remote record.
RemoteStep(plan, remote_record, local_map) ==
    IF remote_record.id \notin DOMAIN local_map
    THEN [plan EXCEPT !.to_create_local = Append(@, remote_record)]
    ELSE LET local_record == local_map[remote_record.id] IN
         IF remote_record.updated_at > local_record.updated_at
         THEN [plan EXCEPT !.to_update_local = Append(@, remote_record)]
         ELSE plan

RECURSIVE LocalLoop(_, _, _, _)
LocalLoop(plan, local_records, i, remote_map_by_custom_id) ==
    IF i > Len(local_records) THEN plan
    ELSE LocalLoop(LocalStep(plan, local_records[i], remote_map_by_custom_id),
                   local_records, i + 1, remote_map_by_custom_id)

RECURSIVE RemoteLoop(_, _, _, _)
RemoteLoop(plan, remote_records, i, local_map) ==
    IF i > Len(remote_records) THEN plan
    ELSE RemoteLoop(RemoteStep(plan, remote_records[i], local_map),
                    remote_records, i + 1, local_map)

calculate_sync_plan(local_records, remote_records) ==
    LET local_map == HashMapById(local_records)
        remote_map_by_custom_id == HashMapById(remote_records)
        pass1 == LocalLoop(EmptyPlan, local_records, 1, remote_map_by_custom_id)
    IN  RemoteLoop(pass1, remote_records, 1, local_map)

\* ------------------------------------------------------------------------
\* State
\* ------------------------------------------------------------------------
VARIABLES
    config,         \* what load_feishu_config finds: feishu_config.json
    remote_table,   \* rows of the remote table; row i has record_id i
    entry,          \* the command running: trigger_sync or sync_with_local_data
    pc,             \* the stage the command is at
    inflight,       \* the request whose response the command awaits
    local_prompts,  \* the local snapshot the plan is computed from
    page_token,     \* list_all_records: page_token
    all_records,    \* list_all_records: all_records
    remote_records, \* the records list_all_records returned
    sync_plan,      \* the plan calculate_sync_plan returned
    sync_result,    \* the SyncResult under construction
    ret,            \* what the command returned to its caller
    log,            \* requests, responses and local notifications, in order
    requests,       \* list_all_records: the query of every request sent
    responses,      \* list_all_records: what every response carried
    call,           \* the function called on its own, and its arguments
    reply,          \* the response body that call reads
    returned        \* what that call returned

\* What list_all_records sent and received.
wire == <<requests, responses>>

\* A function called on its own.
harness == <<call, reply, returned>>

vars == <<config, remote_table, entry, pc, inflight, local_prompts, page_token,
          all_records, remote_records, sync_plan, sync_result, ret, log,
          requests, responses, call, reply, returned>>

\* SyncResult
SyncResult(success, message, lc, lu, rc, ru, total) ==
    [success |-> success, message |-> message,
     local_created |-> lc, local_updated |-> lu,
     remote_created |-> rc, remote_updated |-> ru,
     total_processed |-> total]

\* A message is the text prefix the code formats and the error it formats in
\* ("none" for the success message).
Message(prefix, error) == <<prefix, error>>

\* let mut result = SyncResult { success: true, message: "同步成功", 0, ... }
InitialResult == SyncResult(TRUE, Message("sync succeeded", "none"), 0, 0, 0, 0, 0)

\* Variant: every failed response is reported as a transport failure.
ErrorOfTransport(outcome) == "NetworkError"

\* FeishuSyncError raised for a response of the given kind.  A body that is
\* no JSON takes the path of a transport failure: both leave through `?`.
ErrorOf(outcome) ==
    IF outcome = "transport_error" THEN "NetworkError" ELSE "FeishuApiError"

NoReturn == [channel |-> "none", value |-> << >>]

\* No function is called on its own, and no response body is read.
NoCall == [fn |-> "none", arg |-> 0]
NoReply ==
    [code |-> None, msg |-> None, tenant_access_token |-> None, expire |-> None,
     records |-> None]
Ok(v) == [channel |-> "Ok", value |-> v]
Err(e) == [channel |-> "Err", value |-> e]

\* ------------------------------------------------------------------------
\* The remote service
\* ------------------------------------------------------------------------
\* A row of the table: the field bag of one item.  Missing fields are None.
Row(id, updatedAt) == [id |-> id, updatedAt |-> updatedAt]

\* The item the list endpoint returns for row i: its record_id and fields.
Item(table, i) == [record_id |-> Some(i), fields |-> table[i]]

\* Offset a page_token stands for; the first request carries none.
Offset(token) == IF IsSome(token) THEN Unwrap(token) ELSE 0

Min(a, b) == IF a <= b THEN a ELSE b

\* data of a successful list response: items, has_more, page_token
RecordsResponse(table, token) ==
    LET from == Offset(token)
        to == Min(from + PageRows, Len(table))
    IN  [items |-> [k \in 1..(to - from) |-> Item(table, from + k)],
         has_more |-> to < Len(table),
         page_token |-> IF to < Len(table) THEN Some(to) ELSE None]

\* Number of list requests that read the whole table.
NumPages(table) ==
    IF Len(table) = 0 THEN 1 ELSE (Len(table) + PageRows - 1) \div PageRows

\* Field bag create_remote_records and update_remote_records send for a record.
EncodeFields(record) == Row(Some(record.id), Some(record.updated_at))

\* Variant: batch_create leaves out a record whose id a row already has.
BatchCreateOnce(table, records) ==
    LET fresh == SelectSeq(records,
                           LAMBDA record : \A k \in 1..Len(table) :
                                               table[k].id # Some(record.id))
    IN  table \o [k \in 1..Len(fresh) |->
                     [id |-> Some(fresh[k].id), updatedAt |-> Some(fresh[k].updated_at)]]

\* batch_create appends one row per submitted record.
BatchCreate(table, records) ==
    table \o [k \in 1..Len(records) |-> EncodeFields(records[k])]

\* batch_update overwrites the fields of the rows the pairs address.
RECURSIVE BatchUpdate(_, _)
BatchUpdate(table, pairs) ==
    IF pairs = << >> THEN table
    ELSE LET key == Head(pairs)[1]
             next == IF key \in 1..Len(table)
                     THEN [table EXCEPT ![key] = EncodeFields(Head(pairs)[2])]
                     ELSE table
         IN  BatchUpdate(next, Tail(pairs))

\* ------------------------------------------------------------------------
\* parse_record_from_feishu and the item loop of list_all_records
\* ------------------------------------------------------------------------
\* Variant: an item without record_id is decoded, the record has no key.
ParseKeepsKeyless(item) ==
    IF ~IsSome(item.fields.id) THEN None
    ELSE IF ~IsSome(item.fields.updatedAt) THEN None
    ELSE Some(PromptRecord(Unwrap(item.fields.id), Unwrap(item.fields.updatedAt),
                           item.record_id))

\* Ok(record) is Some(record); Err is None.  The item is reduced to the
\* fields the planner reads; ParseRecordFromFeishu reads them all.
parse_record_from_feishu(item) ==
    IF ~IsSome(item.record_id) THEN None
    ELSE IF ~IsSome(item.fields.id) THEN None
    ELSE IF ~IsSome(item.fields.updatedAt) THEN None
    ELSE Some(PromptRecord(Unwrap(item.fields.id), Unwrap(item.fields.updatedAt),
                           Some(Unwrap(item.record_id))))

\* Variant: a parsed record is put in front of the records collected so far.
RECURSIVE ParseItemsInFront(_, _)
ParseItemsInFront(records, items) ==
    IF items = << >> THEN records
    ELSE LET parsed == parse_record_from_feishu(Head(items)) IN
         ParseItemsInFront(IF IsSome(parsed) THEN <<Unwrap(parsed)>> \o records
                           ELSE records,
                           Tail(items))

RECURSIVE ParseItems(_, _)
ParseItems(records, items) ==
    IF items = << >> THEN records
    ELSE LET parsed == parse_record_from_feishu(Head(items)) IN
         ParseItems(IF IsSome(parsed) THEN Append(records, Unwrap(parsed)) ELSE records,
                    Tail(items))

\* Variant: the local snapshot of trigger_sync holds a stored record.
GetLocalPromptsStored == <<PromptRecord("a", 3, None)>>

\* get_local_prompts: Ok(Vec::new())
get_local_prompts == << >>

\* ------------------------------------------------------------------------
\* Initial states
\* ------------------------------------------------------------------------
\* feishu_config.json: present and enabled, present and disabled, absent, or
\* unreadable (io or JSON error).
Configs == {"enabled", "disabled", "missing", "unreadable"}

\* Rows the table starts with: every field the parser needs is there.
Rows == {Row(Some(i), Some(u)) : i \in Ids, u \in Times}

UniqueIds(records) ==
    \A i, j \in 1..Len(records) : records[i].id = records[j].id => i = j

\* Local snapshots the frontend passes: id is the key of the local store, so a
\* snapshot holds each id at most once, and the frontend sends no record_id.
LocalSnapshots ==
    {s \in SeqsUpTo({PromptRecord(i, u, None) : i \in Ids, u \in Times},
                    Cardinality(Ids)) :
        UniqueIds(s)}

Idle ==
    /\ entry = "none"
    /\ inflight = "none"
    /\ page_token = None
    /\ all_records = << >>
    /\ sync_plan = EmptyPlan
    /\ sync_result = InitialResult
    /\ ret = NoReturn
    /\ log = << >>
    /\ requests = << >>
    /\ responses = << >>

\* No function is called on its own.
Uncalled ==
    /\ call = NoCall
    /\ reply = NoReply
    /\ returned = NoReturn

Init ==
    /\ config \in Configs
    /\ remote_table \in SeqsUpTo(Rows, MaxRemote)
    /\ pc = "idle"
    /\ local_prompts = << >>
    /\ remote_records = << >>
    /\ Idle
    /\ Uncalled

\* ------------------------------------------------------------------------
\* Response envelopes: what each remote operation makes of {code, msg, ...}
\* ------------------------------------------------------------------------
MaxBatch == 2

\* The message of a FeishuApiError: a fixed text, a text formatted from the
\* code and the msg of the response, or the msg of the response as it came.
Fixed(text) == [form |-> text, code |-> 0, msg |-> ""]
Formatted(form, code, msg) == [form |-> form, code |-> code, msg |-> msg]
Verbatim(msg) == [form |-> "{}", code |-> 0, msg |-> msg]

FeishuApiError(code, msg) == [kind |-> "FeishuApiError", code |-> code, msg |-> msg]
JsonError == [kind |-> "JsonError", code |-> 0, msg |-> Fixed("")]

\* api_response.get("msg").and_then(|v| v.as_str()).unwrap_or("未知错误")
MsgOr(r) == IF IsSome(r.msg) THEN Unwrap(r.msg) ELSE "unknown error"

\* get_tenant_access_token: match code { 10014 => .., 10013 => .., .. }
TokenErrorMsg(code, msg) ==
    CASE code = 10014 -> Fixed("invalid app secret")
      [] code = 10013 -> Fixed("invalid app id")
      [] code = 99991663 -> Fixed("tenant access token invalid")
      [] code = 99991664 -> Fixed("tenant access token expired")
      [] OTHER -> Formatted("feishu api error (code: {}): {}", code, msg)

\* list_all_records: match api_response.code { 99991672 => .., .. }
ListErrorMsg(code, msg) ==
    CASE code = 99991672 -> Fixed("insufficient permission")
      [] code = 1254032 -> Fixed("application has no access to the table")
      [] code = 1254051 -> Fixed("table container not found or deleted")
      [] code = 1254010 -> Fixed("data table not found")
      [] OTHER -> Formatted("table api call failed: {} - {}", code, msg)

\* serde_json::from_str::<FeishuApiResponse<T>>: code and msg are required.
TypedEnvelope(r) == IsSome(r.code) /\ IsSome(r.msg)

\* serde_json::from_str::<TenantTokenApiResponse>: both fields are required.
TokenPayload(r) == IsSome(r.tenant_access_token) /\ IsSome(r.expire)

\* Variant: the token payload is decoded before the code is looked at.
TokenBeforeCode(r) ==
    IF TokenPayload(r) THEN Ok(Unwrap(r.tenant_access_token))
    ELSE IF IsSome(r.code) /\ Unwrap(r.code) # 0
    THEN Err(FeishuApiError(Unwrap(r.code), TokenErrorMsg(Unwrap(r.code), MsgOr(r))))
    ELSE Err(JsonError)

\* get_tenant_access_token, from the response body on
get_tenant_access_token(r) ==
    IF IsSome(r.code) /\ Unwrap(r.code) # 0
    THEN Err(FeishuApiError(Unwrap(r.code), TokenErrorMsg(Unwrap(r.code), MsgOr(r))))
    ELSE IF TokenPayload(r) THEN Ok(Unwrap(r.tenant_access_token))
    ELSE Err(JsonError)

\* list_all_records, one response: the error it returns, or Ok with the
\* number of items of the page when the loop goes on to the items.
ListEnvelope(r) ==
    IF ~TypedEnvelope(r) THEN Err(JsonError)
    ELSE IF Unwrap(r.code) # 0
    THEN Err(FeishuApiError(Unwrap(r.code), ListErrorMsg(Unwrap(r.code), Unwrap(r.msg))))
    ELSE IF ~IsSome(r.records)
    THEN Err(FeishuApiError(-1, Fixed("api response data is empty")))
    ELSE Ok(Unwrap(r.records))

\* api_response.get("code").and_then(|v| v.as_i64()).unwrap_or(-1)
CodeOr(r) == IF IsSome(r.code) THEN Unwrap(r.code) ELSE -1

\* Variant: a response without a code counts as code 0, and the count is
\* the number of records the response lists.
CreateCountsResponse(n, r) ==
    IF n = 0 THEN Ok(0)
    ELSE IF IsSome(r.code) /\ Unwrap(r.code) # 0
    THEN Err(FeishuApiError(CodeOr(r), Verbatim(MsgOr(r))))
    ELSE Ok(IF IsSome(r.records) THEN Unwrap(r.records) ELSE 0)

\* create_remote_records for n records, from the response body on
create_remote_records(n, r) ==
    IF n = 0 THEN Ok(0)
    ELSE IF CodeOr(r) # 0
    THEN Err(FeishuApiError(CodeOr(r), Verbatim(MsgOr(r))))
    ELSE Ok(n)

\* update_remote_records for n pairs, from the response body on
update_remote_records(n, r) ==
    IF n = 0 THEN Ok(0)
    ELSE IF ~TypedEnvelope(r) THEN Err(JsonError)
    ELSE IF Unwrap(r.code) # 0
    THEN Err(FeishuApiError(Unwrap(r.code), Verbatim(Unwrap(r.msg))))
    ELSE Ok(IF IsSome(r.records) THEN Unwrap(r.records) ELSE 0)

\* ------------------------------------------------------------------------
\* Stage order after the plan: a stage whose list is empty issues no request
\* ------------------------------------------------------------------------
GoUpdate(plan) ==
    IF plan.to_update_remote # << >> THEN "update" ELSE "local_create"

GoCreate(plan) ==
    IF plan.to_create_remote # << >> THEN "create" ELSE GoUpdate(plan)

\* ------------------------------------------------------------------------
\* The two commands
\* ------------------------------------------------------------------------
\* load_feishu_config(...).map_err(...)?.ok_or_else(...)? and the enabled test
ConfigRefusal ==
    IF config = "unreadable" THEN Message("load config failed", "ConfigError")
    ELSE IF config = "missing" THEN Message("config not set", "none")
    ELSE Message("sync disabled", "none")

Start(e, lp) ==
    /\ entry' = e
    /\ local_prompts' = lp
    /\ IF config = "enabled"
       THEN pc' = "token" /\ ret' = ret
       ELSE pc' = "done" /\ ret' = Err(ConfigRefusal)
    /\ UNCHANGED <<config, remote_table, inflight, page_token, all_records,
                   remote_records, sync_plan, sync_result, log,
                   wire, harness>>

\* trigger_sync: the command takes no local data
TriggerSync ==
    /\ pc = "idle"
    /\ Start("trigger_sync", get_local_prompts)

\* sync_with_local_data: the frontend passes the local snapshot
SyncWithLocalData ==
    /\ pc = "idle"
    /\ \E lp \in LocalSnapshots : Start("sync_with_local_data", lp)

\* What the command returns when token acquisition or the remote read fails.
\* trigger_sync: perform_sync's `?` gives Err(e), turned into a SyncResult.
\* sync_with_local_data: .map_err(|e| format!(...))? returns Err(String).
EarlyFailure(e, stage, error) ==
    IF e = "trigger_sync"
    THEN Ok(SyncResult(FALSE, Message("sync failed", error), 0, 0, 0, 0, 0))
    ELSE Err(Message(IF stage = "token" THEN "get token failed"
                     ELSE "get remote data failed", error))

\* get_tenant_access_token: the request
SendToken ==
    /\ pc = "token"
    /\ inflight = "none"
    /\ inflight' = "token"
    /\ log' = Append(log, "token_req")
    /\ UNCHANGED <<config, remote_table, entry, pc, local_prompts, page_token,
                   all_records, remote_records, sync_plan, sync_result, ret,
                   wire, harness>>

\* get_tenant_access_token: the response
RecvToken ==
    /\ inflight = "token"
    /\ inflight' = "none"
    /\ \E outcome \in {"ok", "api_error", "transport_error"} :
        IF outcome = "ok"
        THEN /\ log' = Append(log, "token_resp_ok")
             /\ pc' = "list"
             /\ ret' = ret
        ELSE /\ log' = Append(log, "token_resp_err")
             /\ pc' = "done"
             /\ ret' = EarlyFailure(entry, "token", ErrorOf(outcome))
    /\ page_token' = None
    /\ all_records' = << >>
    /\ UNCHANGED <<config, remote_table, entry, local_prompts, remote_records,
                   sync_plan, sync_result,
                   wire, harness>>

\* Variant: the loop breaks after the first page whatever has_more says.
LastPageAlways(data) == TRUE

\* if !data.has_more { break; }
LastPage(data) == ~data.has_more

\* let mut query_params = vec!["page_size=500".to_string()]
page_size == 500

\* The query of one request: page_size, and page_token when the reader has one.
QueryParams(token) == [page_size |-> page_size, page_token |-> token]

\* list_all_records: the request of one page
SendList ==
    /\ pc = "list"
    /\ inflight = "none"
    /\ inflight' = "list"
    /\ log' = Append(log, "list_req")
    /\ requests' = Append(requests, QueryParams(page_token))
    /\ UNCHANGED <<config, remote_table, entry, pc, local_prompts, page_token,
                   all_records, remote_records, sync_plan, sync_result, ret,
                   responses, harness>>

\* What the reader was answered: the kind of response and, for a data
\* envelope, its has_more and page_token.
Answer(outcome, data) ==
    [outcome |-> outcome,
     has_more |-> outcome = "ok" /\ data.has_more,
     page_token |-> IF outcome = "ok" THEN data.page_token ELSE None]

\* list_all_records: what the loop does with the response of one page
ListResponse(outcome, data) ==
    /\ responses' = Append(responses, Answer(outcome, data))
    /\ IF outcome = "ok"
       THEN LET parsed == ParseItems(all_records, data.items)
            IN  /\ all_records' = parsed
                /\ ret' = ret
                /\ IF LastPage(data)
                   THEN /\ log' = Append(log, "list_resp_last")
                        /\ remote_records' = parsed
                        /\ pc' = "plan"
                        /\ page_token' = page_token
                   ELSE /\ log' = Append(log, "list_resp_more")
                        /\ remote_records' = remote_records
                        /\ pc' = "list"
                        /\ page_token' = data.page_token
       ELSE /\ log' = Append(log, "list_resp_err")
            /\ pc' = "done"
            /\ ret' = EarlyFailure(entry, "list", ErrorOf(outcome))
            /\ UNCHANGED <<all_records, remote_records, page_token>>
    /\ UNCHANGED <<config, remote_table, entry, local_prompts, sync_plan,
                   sync_result, requests, harness>>

\* list_all_records: the response of one page
RecvList ==
    /\ inflight = "list"
    /\ inflight' = "none"
    /\ \E outcome \in {"ok", "api_error", "no_data", "transport_error"} :
        ListResponse(outcome, RecordsResponse(remote_table, page_token))

\* calculate_sync_plan on the two snapshots, and the fresh SyncResult
ComputePlan ==
    /\ pc = "plan"
    /\ LET local_records == IF entry = "trigger_sync" THEN get_local_prompts
                            ELSE local_prompts
           plan == calculate_sync_plan(local_records, remote_records)
       IN  /\ local_prompts' = local_records
           /\ sync_plan' = plan
           /\ pc' = GoCreate(plan)
    /\ sync_result' = InitialResult
    /\ log' = Append(log, "plan")
    /\ UNCHANGED <<config, remote_table, entry, inflight, page_token, all_records,
                   remote_records, ret,
                   wire, harness>>

\* create_remote_records: the batch_create request
SendCreate ==
    /\ pc = "create"
    /\ inflight = "none"
    /\ inflight' = "create"
    /\ log' = Append(log, "create_req")
    /\ UNCHANGED <<config, remote_table, entry, pc, local_prompts, page_token,
                   all_records, remote_records, sync_plan, sync_result, ret,
                   wire, harness>>

\* The stage a failed remote write leaves the command at.
\* perform_sync: `?` returns the error, no later stage runs.
\* sync_with_local_data: the Err arm records the failure and falls through.
AfterWriteFailure(e, next) == IF e = "trigger_sync" THEN "done" ELSE next

\* create_remote_records: the response, and what the caller does with it
RecvCreate ==
    /\ inflight = "create"
    /\ inflight' = "none"
    /\ \E outcome \in {"ok", "api_error", "transport_error"} :
        IF outcome = "ok"
        THEN /\ log' = Append(log, "create_resp_ok")
             /\ remote_table' = BatchCreate(remote_table, sync_plan.to_create_remote)
             /\ sync_result' = [sync_result EXCEPT
                                  !.remote_created = Len(sync_plan.to_create_remote)]
             /\ pc' = GoUpdate(sync_plan)
             /\ ret' = ret
        ELSE /\ log' = Append(log, "create_resp_err")
             /\ remote_table' = remote_table
             /\ pc' = AfterWriteFailure(entry, GoUpdate(sync_plan))
             /\ IF entry = "trigger_sync"
                THEN /\ sync_result' = sync_result
                     /\ ret' = Ok(SyncResult(FALSE,
                                    Message("sync failed", ErrorOf(outcome)),
                                    0, 0, 0, 0, 0))
                ELSE /\ sync_result' = [sync_result EXCEPT
                                          !.success = FALSE,
                                          !.message = Message("create remote failed",
                                                              ErrorOf(outcome))]
                     /\ ret' = ret
    /\ UNCHANGED <<config, entry, local_prompts, page_token, all_records,
                   remote_records, sync_plan,
                   wire, harness>>

\* update_remote_records: the batch_update request
SendUpdate ==
    /\ pc = "update"
    /\ inflight = "none"
    /\ inflight' = "update"
    /\ log' = Append(log, "update_req")
    /\ UNCHANGED <<config, remote_table, entry, pc, local_prompts, page_token,
                   all_records, remote_records, sync_plan, sync_result, ret,
                   wire, harness>>

\* Bodies batch_update answers n pairs with: code 0, with or without a data
\* envelope that lists up to n records, or a code other than 0.
UpdateReplies(n) ==
    {[NoReply EXCEPT !.code = Some(0), !.msg = Some("success"), !.records = data] :
        data \in {None} \cup {Some(k) : k \in 0..n}}
    \cup {[NoReply EXCEPT !.code = Some(1254999), !.msg = Some("msg")]}

\* Variant: sync_with_local_data counts the pairs of the plan, as
\* perform_sync does.
RemoteUpdatedPlanned(e, planned, updated_count) == planned

\* result.remote_updated: perform_sync stores the length of the plan's list,
\* sync_with_local_data the count update_remote_records returned.
RemoteUpdated(e, planned, updated_count) ==
    IF e = "trigger_sync" THEN planned ELSE updated_count

\* update_remote_records: the response, and what the caller does with it.
\* NoReply stands for a request that brought no body back.
RecvUpdate ==
    /\ inflight = "update"
    /\ inflight' = "none"
    /\ \E body \in UpdateReplies(Len(sync_plan.to_update_remote)) \cup {NoReply} :
        LET planned == Len(sync_plan.to_update_remote)
            answer == IF body = NoReply THEN Err(ErrorOf("transport_error"))
                      ELSE update_remote_records(planned, body)
            error == IF body = NoReply THEN answer.value ELSE answer.value.kind
        IN  /\ reply' = body
            /\ IF answer.channel = "Ok"
               THEN /\ log' = Append(log, "update_resp_ok")
                    /\ remote_table' = BatchUpdate(remote_table,
                                                   sync_plan.to_update_remote)
                    /\ sync_result' = [sync_result EXCEPT !.remote_updated =
                                         RemoteUpdated(entry, planned, answer.value)]
                    /\ pc' = "local_create"
                    /\ ret' = ret
               ELSE /\ log' = Append(log, "update_resp_err")
                    /\ remote_table' = remote_table
                    /\ pc' = AfterWriteFailure(entry, "local_create")
                    /\ IF entry = "trigger_sync"
                       THEN /\ sync_result' = sync_result
                            /\ ret' = Ok(SyncResult(FALSE,
                                           Message("sync failed", error),
                                           0, 0, 0, 0, 0))
                       ELSE /\ sync_result' = [sync_result EXCEPT
                                                 !.success = FALSE,
                                                 !.message =
                                                     Message("update remote failed",
                                                             error)]
                            /\ ret' = ret
    /\ UNCHANGED <<config, entry, local_prompts, page_token, all_records,
                   remote_records, sync_plan, wire, call, returned>>

\* Variant: an event that is not delivered fails the run.
EmittedOrFailed(result, delivered) ==
    IF delivered THEN result ELSE [result EXCEPT !.success = FALSE]

\* if let Err(e) = app_handle.emit(..) { println!(..) }: the result is the
\* same whether or not the event was delivered.
Emitted(result, delivered) == result

\* Local creates: create_local_prompts (perform_sync, always Ok) or the
\* "sync-create-local" event (sync_with_local_data, a failed emit is only logged).
LocalCreate ==
    /\ pc = "local_create"
    /\ pc' = "local_update"
    /\ IF sync_plan.to_create_local # << >>
       THEN \E delivered \in IF entry = "trigger_sync" THEN {TRUE} ELSE BOOLEAN :
                /\ sync_result' = Emitted([sync_result EXCEPT
                                     !.local_created = Len(sync_plan.to_create_local)],
                                          delivered)
                /\ log' = Append(log, IF delivered THEN "local_create"
                                      ELSE "local_create_lost")
       ELSE UNCHANGED <<sync_result, log>>
    /\ UNCHANGED <<config, remote_table, entry, inflight, local_prompts, page_token,
                   all_records, remote_records, sync_plan, ret,
                   wire, harness>>

\* Variant: the sum leaves out remote_updated.
TotalProcessedNoUpdates(result) ==
    result.local_created + result.local_updated + result.remote_created

\* total_processed = local_created + local_updated + remote_created + remote_updated
TotalProcessed(result) ==
    result.local_created + result.local_updated
    + result.remote_created + result.remote_updated

\* Local updates, then total_processed and the return of the result.
LocalUpdate ==
    /\ pc = "local_update"
    /\ pc' = "done"
    /\ \E delivered \in IF entry = "trigger_sync" \/ sync_plan.to_update_local = << >>
                        THEN {TRUE} ELSE BOOLEAN :
         LET counted == IF sync_plan.to_update_local # << >>
                        THEN Emitted([sync_result EXCEPT
                                 !.local_updated = Len(sync_plan.to_update_local)],
                                     delivered)
                        ELSE sync_result
         IN  /\ sync_result' = [counted EXCEPT !.total_processed = TotalProcessed(counted)]
             /\ ret' = Ok(sync_result')
             /\ log' = IF sync_plan.to_update_local = << >> THEN log
                       ELSE Append(log, IF delivered THEN "local_update"
                                        ELSE "local_update_lost")
    /\ UNCHANGED <<config, remote_table, entry, inflight, local_prompts, page_token,
                   all_records, remote_records, sync_plan,
                   wire, harness>>

Next ==
    \/ TriggerSync
    \/ SyncWithLocalData
    \/ SendToken
    \/ RecvToken
    \/ SendList
    \/ RecvList
    \/ ComputePlan
    \/ SendCreate
    \/ RecvCreate
    \/ SendUpdate
    \/ RecvUpdate
    \/ LocalCreate
    \/ LocalUpdate

Spec == Init /\ [][Next]_vars

\* ------------------------------------------------------------------------
\* list_all_records on its own: tables with rows that fail to parse, and a
\* service that may report has_more without a page_token
\* ------------------------------------------------------------------------
MaxListRows == 3
MaxRequests == 4

\* Rows of any shape: id or updatedAt may be missing.
ListRows ==
    {Row(i, u) : i \in {None} \cup {Some(x) : x \in Ids}, u \in {None, Some(1)}}

InitList ==
    /\ config = "enabled"
    /\ remote_table \in SeqsUpTo(ListRows, MaxListRows)
    /\ entry \in {"trigger_sync", "sync_with_local_data"}
    /\ pc = "list"
    /\ inflight = "none"
    /\ local_prompts = << >>
    /\ page_token = None
    /\ all_records = << >>
    /\ remote_records = << >>
    /\ sync_plan = EmptyPlan
    /\ sync_result = InitialResult
    /\ ret = NoReturn
    /\ log = << >>
    /\ requests = << >>
    /\ responses = << >>
    /\ call = NoCall
    /\ reply = NoReply
    /\ returned = NoReturn

\* RecordsResponse.page_token is Option<String>: a response may report
\* has_more and carry no page_token.
RecvListWithoutToken ==
    /\ inflight = "list"
    /\ inflight' = "none"
    /\ Len(requests) < MaxRequests
    /\ LET data == RecordsResponse(remote_table, page_token) IN
       ListResponse("ok", [data EXCEPT !.has_more = TRUE, !.page_token = None])

NextList ==
    \/ SendList
    \/ RecvList
    \/ RecvListWithoutToken

SpecList == InitList /\ [][NextList]_vars

\* ------------------------------------------------------------------------
\* The planner on its own: any two snapshots, then calculate_sync_plan
\* ------------------------------------------------------------------------
InitPlan ==
    /\ config = "enabled"
    /\ remote_table = << >>
    /\ pc = "plan"
    /\ local_prompts \in SeqsUpTo(LocalRecords, MaxLocal)
    /\ remote_records \in SeqsUpTo(RemoteRecords, MaxRemote)
    /\ Idle
    /\ Uncalled

NextPlan == ComputePlan

SpecPlan == InitPlan /\ [][NextPlan]_vars

\* ------------------------------------------------------------------------
\* Each remote operation on its own, on any response body
\* ------------------------------------------------------------------------
\* Codes a response may carry: 0, the codes the code names, one it does not.
Codes == {0, 10013, 10014, 99991663, 99991664, 99991672,
          1254010, 1254032, 1254051, 1254999, -1}

\* Response bodies: JSON objects with or without code, msg, the token
\* payload, and a data envelope listing some number of records.
Replies ==
    [code : {None} \cup {Some(c) : c \in Codes},
     msg : {None, Some("msg")},
     tenant_access_token : {None, Some("t-token")},
     expire : {None, Some(7200)},
     records : {None} \cup {Some(k) : k \in 0..MaxBatch}]

\* The function called and its argument: for a batch, the number of records.
Call(fn, arg) == [fn |-> fn, arg |-> arg]

Calls ==
    {Call("get_tenant_access_token", 0), Call("list_all_records", 0)}
    \cup {Call(fn, n) : fn \in {"create_remote_records", "update_remote_records"},
                        n \in 0..MaxBatch}

InitEnvelope ==
    /\ config = "enabled"
    /\ remote_table = << >>
    /\ pc = "idle"
    /\ local_prompts = << >>
    /\ remote_records = << >>
    /\ Idle
    /\ call \in Calls
    /\ reply \in Replies
    /\ returned = NoReturn

Return(value) ==
    /\ returned' = value
    /\ UNCHANGED <<config, remote_table, entry, pc, inflight, local_prompts,
                   page_token, all_records, remote_records, sync_plan,
                   sync_result, ret, log, wire, call, reply>>

GetTenantAccessToken ==
    /\ call.fn = "get_tenant_access_token"
    /\ returned.channel = "none"
    /\ Return(get_tenant_access_token(reply))

ListAllRecordsEnvelope ==
    /\ call.fn = "list_all_records"
    /\ returned.channel = "none"
    /\ Return(ListEnvelope(reply))

CreateRemoteRecords ==
    /\ call.fn = "create_remote_records"
    /\ returned.channel = "none"
    /\ Return(create_remote_records(call.arg, reply))

UpdateRemoteRecords ==
    /\ call.fn = "update_remote_records"
    /\ returned.channel = "none"
    /\ Return(update_remote_records(call.arg, reply))

NextEnvelope ==
    \/ GetTenantAccessToken
    \/ ListAllRecordsEnvelope
    \/ CreateRemoteRecords
    \/ UpdateRemoteRecords

SpecEnvelope == InitEnvelope /\ [][NextEnvelope]_vars

\* ------------------------------------------------------------------------
\* The field codec: the fields create_remote_records writes for a record
\* and parse_record_from_feishu on items of any shape
\* ------------------------------------------------------------------------
MaxMillis == 1
MaxSubMillis == 1

\* DateTime<Utc>: whole milliseconds since the epoch and the part of a
\* millisecond beyond them.  MaxMillis stands for the last millisecond a
\* DateTime can hold.
DateTime(millis, sub) == [millis |-> millis, sub |-> sub]

DateTimes == {DateTime(m, k) : m \in 0..MaxMillis, k \in 0..MaxSubMillis}

\* Variant: rounds to the nearest millisecond.
TimestampMillisRounded(t) ==
    IF 2 * t.sub > MaxSubMillis THEN t.millis + 1 ELSE t.millis

\* DateTime::timestamp_millis
timestamp_millis(t) == t.millis

\* DateTime::from_timestamp_millis: None outside the range of DateTime
from_timestamp_millis(n) ==
    IF n \in 0..MaxMillis THEN Some(DateTime(n, 0)) ELSE None

\* serde_json::Value of a field: absent, a string, an integer, or anything
\* else (null, a boolean, a float, an array, an object).
Absent == [t |-> "absent", s |-> "", n |-> 0]
Text(s) == [t |-> "text", s |-> s, n |-> 0]
Number(n) == [t |-> "i64", s |-> "", n |-> n]
Other == [t |-> "other", s |-> "", n |-> 0]

\* PromptRecord with all its fields.
FullRecord(id, title, content, tags, is_favorite, created_at, updated_at, last_used, record_id) ==
    [id |-> id, title |-> title, content |-> content, tags |-> tags,
     is_favorite |-> is_favorite, created_at |-> created_at,
     updated_at |-> updated_at, last_used |-> last_used, record_id |-> record_id]

\* if record.is_favorite { "是" } else { "否" }
FavoriteToken(is_favorite) == IF is_favorite THEN "yes" ELSE "no"

\* create_remote_records: the fields map of one record
EncodeRecord(record) ==
    [id |-> Text(record.id),
     title |-> Text(record.title),
     content |-> Text(record.content),
     tags |-> Text(record.tags),
     isFavorite |-> Text(FavoriteToken(record.is_favorite)),
     createdAt |-> Number(timestamp_millis(record.created_at)),
     updatedAt |-> Number(timestamp_millis(record.updated_at)),
     lastUsed |-> IF IsSome(record.last_used)
                  THEN Number(timestamp_millis(Unwrap(record.last_used)))
                  ELSE Absent]

\* Variant: a record without last_used is sent with lastUsed null.
EncodeUpdateNullLastUsed(record) ==
    [id |-> Text(record.id),
     title |-> Text(record.title),
     content |-> Text(record.content),
     tags |-> Text(record.tags),
     isFavorite |-> Text(IF record.is_favorite THEN "yes" ELSE "no"),
     createdAt |-> Number(record.created_at.millis),
     updatedAt |-> Number(record.updated_at.millis),
     lastUsed |-> IF record.last_used # << >>
                  THEN Number(record.last_used[1].millis)
                  ELSE [t |-> "other", s |-> "", n |-> 0]]

\* update_remote_records: the fields map of one record; the else arm of
\* last_used inserts nothing.
EncodeUpdateRecord(record) ==
    [id |-> Text(record.id),
     title |-> Text(record.title),
     content |-> Text(record.content),
     tags |-> Text(record.tags),
     isFavorite |-> IF record.is_favorite THEN Text("yes") ELSE Text("no"),
     createdAt |-> Number(timestamp_millis(record.created_at)),
     updatedAt |-> Number(timestamp_millis(record.updated_at)),
     lastUsed |-> IF IsSome(record.last_used)
                  THEN Number(timestamp_millis(Unwrap(record.last_used)))
                  ELSE Absent]

\* get_text: Ok(text) is Some(text); Err is None
get_text(fields, key) ==
    IF fields[key].t = "text" THEN Some(fields[key].s) ELSE None

\* get_timestamp_from_field: Ok(t) is Some(t); Err is None
get_timestamp_from_field(fields, key) ==
    IF fields[key].t = "i64" THEN from_timestamp_millis(fields[key].n) ELSE None

\* get_optional_timestamp
get_optional_timestamp(fields, key) == get_timestamp_from_field(fields, key)

\* unwrap_or_else(|_| default)
UnwrapOr(option, default) == IF IsSome(option) THEN Unwrap(option) ELSE default

\* Variant: any text sets the flag.
IsFavoriteAnyText(fields) == fields.isFavorite.t = "text"

\* fields.get("isFavorite").and_then(as_str).map(|s| s == "是").unwrap_or(false)
IsFavorite(fields) ==
    fields.isFavorite.t = "text" /\ fields.isFavorite.s = "yes"

\* parse_record_from_feishu with every field it reads.  The item is its
\* record_id and its fields, None when fields is missing or no object.
ParseRecordFromFeishu(item) ==
    IF item.record_id.t # "text" THEN Err("record_id")
    ELSE IF ~IsSome(item.fields) THEN Err("fields")
    ELSE LET fields == Unwrap(item.fields)
             id == get_text(fields, "id")
             created_at == get_timestamp_from_field(fields, "createdAt")
             updated_at == get_timestamp_from_field(fields, "updatedAt")
         IN  IF ~IsSome(id) THEN Err("id")
             ELSE IF ~IsSome(created_at) THEN Err("createdAt")
             ELSE IF ~IsSome(updated_at) THEN Err("updatedAt")
             ELSE Ok(FullRecord(Unwrap(id),
                                UnwrapOr(get_text(fields, "title"), "untitled"),
                                UnwrapOr(get_text(fields, "content"), ""),
                                UnwrapOr(get_text(fields, "tags"), "[]"),
                                IsFavorite(fields),
                                Unwrap(created_at),
                                Unwrap(updated_at),
                                get_optional_timestamp(fields, "lastUsed"),
                                Some(item.record_id.s)))

\* Values a timestamp field may hold: absent, text, something else, an
\* integer in the range of DateTime or the first one beyond it.
TimeValues ==
    {Absent, Text("1"), Other} \cup {Number(n) : n \in 0..(MaxMillis + 1)}

FieldBags ==
    [id : {Absent, Text("a"), Number(1)},
     title : {Absent, Text("t"), Other},
     content : {Absent, Text("c")},
     tags : {Absent, Text("[x]")},
     isFavorite : {Absent, Text("yes"), Text("no"), Other},
     createdAt : TimeValues,
     updatedAt : TimeValues,
     lastUsed : TimeValues]

Items ==
    [record_id : {Absent, Text("rec1"), Other},
     fields : {None} \cup {Some(bag) : bag \in FieldBags}]

\* Records as the local side holds them: no record_id.
FullRecords ==
    {FullRecord("a", title, content, tags, is_favorite, created_at, updated_at,
                last_used, None) :
        title \in {"", "t"}, content \in {"", "c"}, tags \in {"[]", "[x]"},
        is_favorite \in BOOLEAN, created_at \in DateTimes, updated_at \in DateTimes,
        last_used \in {None} \cup {Some(t) : t \in DateTimes}}

InitCodec ==
    /\ config = "enabled"
    /\ remote_table = << >>
    /\ pc = "idle"
    /\ local_prompts = << >>
    /\ remote_records = << >>
    /\ Idle
    /\ \/ \E item \in Items : call = Call("parse_record_from_feishu", item)
       \/ \E fn \in {"encode", "fields"}, record \in FullRecords :
              call = Call(fn, record)
    /\ reply = NoReply
    /\ returned = NoReturn

\* parse_record_from_feishu on an item
ParseItem ==
    /\ call.fn = "parse_record_from_feishu"
    /\ returned.channel = "none"
    /\ Return(ParseRecordFromFeishu(call.arg))

\* The record is written with the fields create_remote_records builds, the
\* service files them under a record_id, and the item is parsed back.
EncodeThenParse ==
    /\ call.fn = "encode"
    /\ returned.channel = "none"
    /\ Return(ParseRecordFromFeishu([record_id |-> Text("rec1"),
                                     fields |-> Some(EncodeRecord(call.arg))]))

\* The fields map each of the two batch requests builds for the record.
BuildFields ==
    /\ call.fn = "fields"
    /\ returned.channel = "none"
    /\ Return(Ok([batch_create |-> EncodeRecord(call.arg),
                  batch_update |-> EncodeUpdateRecord(call.arg)]))

NextCodec ==
    \/ ParseItem
    \/ EncodeThenParse
    \/ BuildFields

SpecCodec == InitCodec /\ [][NextCodec]_vars

\* ------------------------------------------------------------------------
\* parse_feishu_base_url
\* ------------------------------------------------------------------------
MaxSegments == 3

\* A string is the sequence of its pieces: the separators ?, & and =, and
\* words that hold no separator.  A URL is given as url.split('/') sees it,
\* the sequence of its parts.
\* str.find(c): the position of the first c, 0 when there is none
Find(str, c) ==
    LET at == {i \in 1..Len(str) : str[i] = c}
    IN  IF at = {} THEN 0 ELSE CHOOSE i \in at : \A j \in at : i <= j

\* str.split(c)
RECURSIVE Split(_, _)
Split(str, c) ==
    LET at == Find(str, c) IN
    IF at = 0 THEN <<str>>
    ELSE <<SubSeq(str, 1, at - 1)>> \o Split(SubSeq(str, at + 1, Len(str)), c)

\* for param in query_string.split('&'): table_id after the loop
RECURSIVE TableParam(_, _)
TableParam(table_id, params) ==
    IF params = << >> THEN table_id
    ELSE LET param == Head(params)
             eq == Find(param, "=")
         IN  TableParam(IF eq > 0 /\ SubSeq(param, 1, eq - 1) = <<"table">>
                        THEN Some(SubSeq(param, eq + 1, Len(param)))
                        ELSE table_id,
                        Tail(params))

UrlParseError(part) == [kind |-> "UrlParseError", code |-> 0, msg |-> Fixed(part)]

\* parse_feishu_base_url on the parts of the URL
parse_feishu_base_url(url_parts) ==
    LET found == {i \in 1..Len(url_parts) :
                     /\ url_parts[i] \in {<<"base">>, <<"wiki">>}
                     /\ i + 1 <= Len(url_parts)}
        i == CHOOSE k \in found : \A j \in found : k <= j
        content_part == url_parts[i + 1]
        query_start == Find(content_part, "?")
        app_token ==
            IF found = {} THEN None
            ELSE IF query_start > 0 THEN Some(SubSeq(content_part, 1, query_start - 1))
            ELSE Some(content_part)
        table_id ==
            IF found = {} \/ query_start = 0 THEN None
            ELSE TableParam(None,
                            Split(SubSeq(content_part, query_start + 1,
                                         Len(content_part)), "&"))
    IN  IF ~IsSome(app_token) THEN Err(UrlParseError("app_token"))
        ELSE IF ~IsSome(table_id) THEN Err(UrlParseError("table_id"))
        ELSE Ok(<<Unwrap(app_token), Unwrap(table_id)>>)

\* Parts a URL is made of.
UrlParts ==
    {<< >>, <<"https:">>, <<"x.feishu.cn">>, <<"base">>, <<"wiki">>, <<"app">>,
     <<"app", "?", "table", "=", "tbl">>,
     <<"app", "?", "view", "=", "vew", "&", "table", "=", "tbl">>,
     <<"app", "?", "table", "=", "tbl", "&", "table", "=", "tbl2">>,
     <<"app", "?", "view", "=", "vew">>,
     <<"app", "?", "table">>,
     <<"app", "?", "table", "=">>,
     <<"?", "table", "=", "tbl">>,
     <<"app", "?">>}

InitUrl ==
    /\ config = "enabled"
    /\ remote_table = << >>
    /\ pc = "idle"
    /\ local_prompts = << >>
    /\ remote_records = << >>
    /\ Idle
    /\ call \in {Call("parse_feishu_base_url", url) : url \in SeqsUpTo(UrlParts, MaxSegments)}
    /\ reply = NoReply
    /\ returned = NoReturn

ParseFeishuBaseUrl ==
    /\ call.fn = "parse_feishu_base_url"
    /\ returned.channel = "none"
    /\ Return(parse_feishu_base_url(call.arg))

NextUrl == ParseFeishuBaseUrl

SpecUrl == InitUrl /\ [][NextUrl]_vars

\* ------------------------------------------------------------------------
\* From the items of the remote read to the plan
\* ------------------------------------------------------------------------
MaxItems == 2

\* Items of any shape: record_id, id or updatedAt may be missing.
SnapshotItems ==
    [record_id : {None, Some(1)},
     fields : {Row(i, u) : i \in {None} \cup {Some(x) : x \in Ids},
                           u \in {None, Some(1), Some(2)}}]

InitSnapshot ==
    /\ config = "enabled"
    /\ remote_table = << >>
    /\ pc = "idle"
    /\ local_prompts = << >>
    /\ remote_records = << >>
    /\ Idle
    /\ call \in {Call("calculate_sync_plan", [local_prompts |-> lp, items |-> items]) :
                    lp \in LocalSnapshots, items \in SeqsUpTo(SnapshotItems, MaxItems)}
    /\ reply = NoReply
    /\ returned = NoReturn

\* The item loop of list_all_records, then calculate_sync_plan on what it kept.
PlanFromItems ==
    /\ call.fn = "calculate_sync_plan"
    /\ returned.channel = "none"
    /\ LET records == ParseItems(<< >>, call.arg.items) IN
       Return(Ok([remote_records |-> records,
                  sync_plan |-> calculate_sync_plan(call.arg.local_prompts, records)]))

NextSnapshot == PlanFromItems

SpecSnapshot == InitSnapshot /\ [][NextSnapshot]_vars

\* ------------------------------------------------------------------------
\* create_remote_records called again after a failure
\* ------------------------------------------------------------------------
MaxCalls == 2

InitRetry ==
    /\ config = "enabled"
    /\ remote_table \in SeqsUpTo(Rows, 1)
    /\ pc = "idle"
    /\ local_prompts = << >>
    /\ remote_records = << >>
    /\ Idle
    /\ call \in {Call("create_remote_records", records) : records \in LocalSnapshots}
    /\ reply = NoReply
    /\ returned = NoReturn

RetryFrame ==
    UNCHANGED <<config, entry, pc, local_prompts, page_token, all_records,
                remote_records, sync_plan, sync_result, ret, wire, call>>

\* The call: Ok(0) without a request for no records, else the POST.
PostCreate ==
    /\ call.fn = "create_remote_records"
    /\ returned.channel = "none"
    /\ inflight = "none"
    /\ IF call.arg = << >>
       THEN /\ returned' = create_remote_records(0, NoReply)
            /\ UNCHANGED <<inflight, log>>
       ELSE /\ inflight' = "create"
            /\ log' = Append(log, "create_req")
            /\ returned' = returned
    /\ UNCHANGED <<remote_table, reply>>
    /\ RetryFrame

\* send() fails before the request reaches the remote.
PostFails ==
    /\ inflight = "create"
    /\ inflight' = "none"
    /\ log' = Append(log, "create_req_lost")
    /\ returned' = Err(ErrorOf("transport_error"))
    /\ UNCHANGED <<remote_table, reply>>
    /\ RetryFrame

\* The remote refuses the batch: a body with a code other than 0.
RemoteRefuses ==
    /\ inflight = "create"
    /\ inflight' = "none"
    /\ log' = Append(log, "create_resp_err")
    /\ reply' = [NoReply EXCEPT !.code = Some(1254999), !.msg = Some("msg")]
    /\ returned' = create_remote_records(Len(call.arg), reply')
    /\ UNCHANGED remote_table
    /\ RetryFrame

\* The remote commits the batch; its response arrives or is lost.
RemoteCommits ==
    /\ inflight = "create"
    /\ inflight' = "none"
    /\ remote_table' = BatchCreate(remote_table, call.arg)
    /\ \E delivered \in BOOLEAN :
         IF delivered
         THEN /\ log' = Append(log, "create_resp_ok")
              /\ reply' = [NoReply EXCEPT !.code = Some(0), !.msg = Some("success")]
              /\ returned' = create_remote_records(Len(call.arg), reply')
         ELSE /\ log' = Append(log, "create_resp_lost")
              /\ reply' = NoReply
              /\ returned' = Err(ErrorOf("transport_error"))
    /\ RetryFrame

\* The caller calls create_remote_records again with the same records.
CallAgain ==
    /\ call.fn = "create_remote_records"
    /\ returned.channel = "Err"
    /\ Cardinality({i \in 1..Len(log) : log[i] = "create_req"}) < MaxCalls
    /\ returned' = NoReturn
    /\ reply' = NoReply
    /\ UNCHANGED <<remote_table, inflight, log>>
    /\ RetryFrame

NextRetry == PostCreate \/ PostFails \/ RemoteRefuses \/ RemoteCommits \/ CallAgain

SpecRetry == InitRetry /\ [][NextRetry]_vars

\* ------------------------------------------------------------------------
\* Two invocations of sync_with_local_data at once
\* ------------------------------------------------------------------------
\* The command takes no lock and keeps no state between calls: each
\* invocation has its own stage, remote snapshot and plan, held here per
\* invocation, and both work on the one remote table.  Both are passed the
\* snapshot of the one local store.
Invocations == {1, 2}

InitOverlap ==
    /\ config = "enabled"
    /\ remote_table \in SeqsUpTo(Rows, 1)
    /\ local_prompts \in LocalSnapshots
    /\ pc = [p \in Invocations |-> "list"]
    /\ remote_records = [p \in Invocations |-> << >>]
    /\ sync_plan = [p \in Invocations |-> EmptyPlan]
    /\ entry = "sync_with_local_data"
    /\ inflight = "none"
    /\ page_token = None
    /\ all_records = << >>
    /\ sync_result = InitialResult
    /\ ret = NoReturn
    /\ log = << >>
    /\ requests = << >>
    /\ responses = << >>
    /\ Uncalled

OverlapFrame ==
    UNCHANGED <<config, entry, inflight, local_prompts, page_token, all_records,
                sync_result, ret, wire, harness>>

\* list_all_records of invocation p: the records of the table as it is now
ReadRemote(p) ==
    /\ pc[p] = "list"
    /\ pc' = [pc EXCEPT ![p] = "plan"]
    /\ remote_records' =
           [remote_records EXCEPT
              ![p] = ParseItems(<< >>, [k \in 1..Len(remote_table) |->
                                           Item(remote_table, k)])]
    /\ log' = Append(log, <<p, "read">>)
    /\ UNCHANGED <<remote_table, sync_plan>>
    /\ OverlapFrame

\* calculate_sync_plan of invocation p
PlanOf(p) ==
    /\ pc[p] = "plan"
    /\ pc' = [pc EXCEPT ![p] = "create"]
    /\ sync_plan' = [sync_plan EXCEPT
                       ![p] = calculate_sync_plan(local_prompts, remote_records[p])]
    /\ log' = Append(log, <<p, "plan">>)
    /\ UNCHANGED <<remote_table, remote_records>>
    /\ OverlapFrame

\* The batch create of invocation p, when its plan has one.
CreateOf(p) ==
    /\ pc[p] = "create"
    /\ pc' = [pc EXCEPT ![p] = "update"]
    /\ IF sync_plan[p].to_create_remote # << >>
       THEN /\ remote_table' = BatchCreate(remote_table, sync_plan[p].to_create_remote)
            /\ log' = Append(log, <<p, "create">>)
       ELSE UNCHANGED <<remote_table, log>>
    /\ UNCHANGED <<remote_records, sync_plan>>
    /\ OverlapFrame

\* The batch update of invocation p, when its plan has one.
UpdateOf(p) ==
    /\ pc[p] = "update"
    /\ pc' = [pc EXCEPT ![p] = "done"]
    /\ IF sync_plan[p].to_update_remote # << >>
       THEN /\ remote_table' = BatchUpdate(remote_table, sync_plan[p].to_update_remote)
            /\ log' = Append(log, <<p, "update">>)
       ELSE UNCHANGED <<remote_table, log>>
    /\ UNCHANGED <<remote_records, sync_plan>>
    /\ OverlapFrame

NextOverlap ==
    \E p \in Invocations : ReadRemote(p) \/ PlanOf(p) \/ CreateOf(p) \/ UpdateOf(p)

SpecOverlap == InitOverlap /\ [][NextOverlap]_vars

\* ------------------------------------------------------------------------
\* list_all_records against a remote that answers by page_token alone
\* ------------------------------------------------------------------------
MaxReaderRows == 2

\* How the remote answers the request for the page at an offset: the page
\* of the chain, the page with has_more = true and no page_token, or a
\* code other than 0.
PageKinds == {"page", "no_token", "error"}

\* The data the remote returns for a page_token: a function of the token.
ServerData(table, kinds, token) ==
    LET page == RecordsResponse(table, token) IN
    IF kinds[Offset(token)] = "no_token"
    THEN [page EXCEPT !.has_more = TRUE, !.page_token = None]
    ELSE page

\* The table is finite and the reader keeps what it decodes: the remotes
\* taken here are those whose rows up to a page without page_token do not
\* decode, so that all_records stays as it is when such a page is read again.
InitReader ==
    /\ config = "enabled"
    /\ remote_table \in SeqsUpTo(ListRows, MaxReaderRows)
    /\ pc = "list"
    /\ local_prompts = << >>
    /\ remote_records = << >>
    /\ Idle
    /\ call \in {Call("list_all_records", kinds) : kinds \in [0..MaxReaderRows -> PageKinds]}
    /\ \A k \in 0..MaxReaderRows :
           call.arg[k] = "no_token" =>
               \A j \in 1..Min(k + PageRows, Len(remote_table)) :
                   ~IsSome(parse_record_from_feishu(Item(remote_table, j)))
    /\ reply = NoReply
    /\ returned = NoReturn

ReaderFrame ==
    UNCHANGED <<config, remote_table, entry, local_prompts, remote_records,
                sync_plan, sync_result, ret, log, wire, call, reply>>

\* One turn of the loop up to send(): the GET with the page_token held.
ListRequest ==
    /\ call.fn = "list_all_records"
    /\ pc = "list"
    /\ inflight = "none"
    /\ returned.channel = "none"
    /\ inflight' = "list"
    /\ UNCHANGED <<pc, page_token, all_records, returned>>
    /\ ReaderFrame

\* The rest of the turn: the answer, the item loop, has_more and page_token.
ListAnswer ==
    /\ inflight = "list"
    /\ inflight' = "none"
    /\ IF call.arg[Offset(page_token)] = "error"
       THEN /\ returned' = Err(FeishuApiError(1254999, ListErrorMsg(1254999, "msg")))
            /\ pc' = "done"
            /\ UNCHANGED <<page_token, all_records>>
       ELSE LET data == ServerData(remote_table, call.arg, page_token) IN
            /\ all_records' = ParseItems(all_records, data.items)
            /\ IF ~data.has_more
               THEN /\ returned' = Ok(all_records')
                    /\ pc' = "done"
                    /\ page_token' = page_token
               ELSE /\ page_token' = data.page_token
                    /\ UNCHANGED <<pc, returned>>
    /\ ReaderFrame

NextReader == ListRequest \/ ListAnswer

\* The runtime polls the future of the command until it is ready, and the
\* remote answers every request: a step that can be taken is taken.
SpecReader ==
    /\ InitReader
    /\ [][NextReader]_vars
    /\ WF_vars(ListRequest)
    /\ WF_vars(ListAnswer)

\* ------------------------------------------------------------------------
\* Invocations of sync_with_local_data one after another
\* ------------------------------------------------------------------------
MaxRuns == 2

\* No two rows of the table carry the same id.
UniqueRowIds(table) ==
    \A i, j \in 1..Len(table) :
        (IsSome(table[i].id) /\ table[i].id = table[j].id) => i = j

\* The table holds rows of any shape with unique ids; one invocation runs
\* at a time, each with the snapshot the frontend passes it.
InitSequence ==
    /\ config = "enabled"
    /\ remote_table \in {t \in SeqsUpTo(ListRows, MaxReaderRows) : UniqueRowIds(t)}
    /\ local_prompts \in LocalSnapshots
    /\ pc = [p \in {1} |-> "list"]
    /\ remote_records = [p \in {1} |-> << >>]
    /\ sync_plan = [p \in {1} |-> EmptyPlan]
    /\ entry = "sync_with_local_data"
    /\ inflight = "none"
    /\ page_token = None
    /\ all_records = << >>
    /\ sync_result = InitialResult
    /\ ret = NoReturn
    /\ log = << >>
    /\ requests = << >>
    /\ responses = << >>
    /\ Uncalled

\* The next invocation, once the one before has returned.
NextInvocation ==
    /\ pc[1] = "done"
    /\ Cardinality({i \in 1..Len(log) : log[i] = <<1, "read">>}) < MaxRuns
    /\ pc' = [pc EXCEPT ![1] = "list"]
    /\ local_prompts' \in LocalSnapshots
    /\ UNCHANGED <<config, remote_table, entry, inflight, page_token, all_records,
                   remote_records, sync_plan, sync_result, ret, log, wire, harness>>

NextSequence ==
    ReadRemote(1) \/ PlanOf(1) \/ CreateOf(1) \/ UpdateOf(1) \/ NextInvocation

SpecSequence == InitSequence /\ [][NextSequence]_vars

\* ------------------------------------------------------------------------
\* One run of sync_with_local_data after another, with the field codec
\* ------------------------------------------------------------------------
\* The record_id the service files row k under, and the row of a record_id.
RecordIdOf(k) == <<"rec1", "rec2", "rec3", "rec4">>[k]
RowOf(record_id) == CHOOSE k \in 1..4 : RecordIdOf(k) = record_id

\* The order of DateTime, as the comparisons of calculate_sync_plan read it:
\* a record with its updated_at as a count of the smallest parts, and back.
Ordered(record) ==
    [record EXCEPT !.updated_at = @.millis * (MaxSubMillis + 1) + @.sub]
Dated(record) ==
    [record EXCEPT !.updated_at = DateTime(@ \div (MaxSubMillis + 1),
                                           @ % (MaxSubMillis + 1))]

\* The records list_all_records decodes from the rows of the table.
RECURSIVE DecodeRows(_, _, _)
DecodeRows(records, table, k) ==
    IF k > Len(table) THEN records
    ELSE LET parsed == ParseRecordFromFeishu([record_id |-> Text(RecordIdOf(k)),
                                              fields |-> Some(table[k])])
         IN  DecodeRows(IF parsed.channel = "Ok" THEN Append(records, parsed.value)
                        ELSE records,
                        table, k + 1)

\* batch_create and batch_update with the fields the code builds.
CreateRows(table, records) ==
    table \o [k \in 1..Len(records) |-> EncodeRecord(Dated(records[k]))]

RECURSIVE UpdateRows(_, _)
UpdateRows(table, pairs) ==
    IF pairs = << >> THEN table
    ELSE UpdateRows([table EXCEPT ![RowOf(Head(pairs)[1])] =
                        EncodeUpdateRecord(Dated(Head(pairs)[2]))],
                    Tail(pairs))

\* The local store after the frontend has applied the two events: a record
\* to update replaces the record of its id, a record to create is added.
RECURSIVE StoreUpdated(_, _)
StoreUpdated(store, records) ==
    IF records = << >> THEN store
    ELSE StoreUpdated([k \in 1..Len(store) |->
                          IF store[k].id = Head(records).id THEN Dated(Head(records))
                          ELSE store[k]],
                      Tail(records))

StoreApplied(store, plan) ==
    StoreUpdated(store, plan.to_update_local)
    \o [k \in 1..Len(plan.to_create_local) |-> Dated(plan.to_create_local[k])]

\* Records of the local store: updated_at of any precision.
StoredRecords ==
    {FullRecord(id, "t", "c", "[]", FALSE, DateTime(0, 0), updated_at, None, None) :
        id \in Ids, updated_at \in DateTimes}

\* Rows that decode, with and without the fields that have a default.
StoredRows ==
    [id : {Text(x) : x \in Ids},
     title : {Absent, Text("t")},
     content : {Absent},
     tags : {Text("[x]")},
     isFavorite : {Absent, Text("yes")},
     createdAt : {Number(0)},
     updatedAt : {Number(n) : n \in 0..MaxMillis},
     lastUsed : {Absent}]

InitConverge ==
    /\ config = "enabled"
    /\ remote_table \in SeqsUpTo(StoredRows, 1)
    /\ local_prompts \in SeqsUpTo(StoredRecords, 1)
    /\ pc = "idle"
    /\ remote_records = << >>
    /\ entry = "sync_with_local_data"
    /\ inflight = "none"
    /\ page_token = None
    /\ all_records = << >>
    /\ sync_plan = EmptyPlan
    /\ sync_result = InitialResult
    /\ ret = NoReturn
    /\ log = << >>
    /\ requests = << >>
    /\ responses = << >>
    /\ Uncalled

\* A run in which the remote read and the two batches succeed: the plan of
\* the local snapshot and the decoded rows, the creates, then the updates.
RunSync ==
    /\ pc = "idle"
    /\ Cardinality({i \in 1..Len(log) : log[i] = "run"}) < MaxRuns
    /\ pc' = "notified"
    /\ remote_records' = DecodeRows(<< >>, remote_table, 1)
    /\ sync_plan' = calculate_sync_plan(
                        [k \in 1..Len(local_prompts) |-> Ordered(local_prompts[k])],
                        [k \in 1..Len(remote_records') |-> Ordered(remote_records'[k])])
    /\ remote_table' = UpdateRows(CreateRows(remote_table, sync_plan'.to_create_remote),
                                  sync_plan'.to_update_remote)
    /\ log' = Append(log, "run")
    /\ UNCHANGED <<config, entry, inflight, local_prompts, page_token, all_records,
                   sync_result, ret, wire, harness>>

\* The frontend applies sync-create-local and sync-update-local.
ApplyLocal ==
    /\ pc = "notified"
    /\ pc' = "idle"
    /\ local_prompts' = StoreApplied(local_prompts, sync_plan)
    /\ log' = Append(log, "applied")
    /\ UNCHANGED <<config, remote_table, entry, inflight, page_token, all_records,
                   remote_records, sync_plan, sync_result, ret, wire, harness>>

NextConverge == RunSync \/ ApplyLocal

SpecConverge == InitConverge /\ [][NextConverge]_vars

\* ------------------------------------------------------------------------
\* Properties of the plan
\* ------------------------------------------------------------------------
\* The plan has been computed from local_prompts and remote_records.
Planned == "plan" \in Range(log)

IdsOf(records) == {records[i].id : i \in 1..Len(records)}
IdsOfPairs(pairs) == {pairs[i][2].id : i \in 1..Len(pairs)}

\* Number of entries for id x in a list of records, in a list of pairs.
CountId(records, x) == Cardinality({i \in 1..Len(records) : records[i].id = x})
CountPairId(pairs, x) == Cardinality({i \in 1..Len(pairs) : pairs[i][2].id = x})

\* The record with id x of a snapshot in which x occurs once.
TheRecord(records, x) == records[CHOOSE i \in 1..Len(records) : records[i].id = x]

\* Ids that occur once in the local and once in the remote snapshot.
MatchedIds ==
    {x \in Ids : CountId(local_prompts, x) = 1 /\ CountId(remote_records, x) = 1}

NoActionFor(x) ==
    /\ x \notin IdsOf(sync_plan.to_create_local)
    /\ x \notin IdsOf(sync_plan.to_update_local)
    /\ x \notin IdsOf(sync_plan.to_create_remote)
    /\ x \notin IdsOfPairs(sync_plan.to_update_remote)

\* C1: with ids unique inside each snapshot, every local record whose id is in
\* no remote record has exactly one entry in to_create_remote, which is the
\* record itself, and its id is in none of the three other lists.
C1_LocalOnlyCreatedRemotely ==
    (Planned /\ UniqueIds(local_prompts) /\ UniqueIds(remote_records)) =>
        \A i \in 1..Len(local_prompts) :
            LET l == local_prompts[i] IN
            l.id \notin IdsOf(remote_records) =>
                /\ CountId(sync_plan.to_create_remote, l.id) = 1
                /\ l \in Range(sync_plan.to_create_remote)
                /\ l.id \notin IdsOf(sync_plan.to_create_local)
                /\ l.id \notin IdsOf(sync_plan.to_update_local)
                /\ l.id \notin IdsOfPairs(sync_plan.to_update_remote)

C1_Witness ==
    /\ Planned /\ UniqueIds(local_prompts) /\ UniqueIds(remote_records)
    /\ Len(local_prompts) = 1 /\ Len(remote_records) = 1
    /\ Len(sync_plan.to_create_remote) = 1
    /\ sync_plan.to_create_remote[1].id \notin IdsOf(remote_records)

\* C2: with ids unique inside each snapshot, every remote record whose id is in
\* no local record has exactly one entry in to_create_local, which is the
\* record itself, and its id is in none of the three other lists.
C2_RemoteOnlyCreatedLocally ==
    (Planned /\ UniqueIds(local_prompts) /\ UniqueIds(remote_records)) =>
        \A i \in 1..Len(remote_records) :
            LET r == remote_records[i] IN
            r.id \notin IdsOf(local_prompts) =>
                /\ CountId(sync_plan.to_create_local, r.id) = 1
                /\ r \in Range(sync_plan.to_create_local)
                /\ r.id \notin IdsOf(sync_plan.to_update_local)
                /\ r.id \notin IdsOf(sync_plan.to_create_remote)
                /\ r.id \notin IdsOfPairs(sync_plan.to_update_remote)

C2_Witness ==
    /\ Planned /\ UniqueIds(local_prompts) /\ UniqueIds(remote_records)
    /\ Len(local_prompts) = 1 /\ Len(remote_records) = 2
    /\ Len(sync_plan.to_create_local) = 1
    /\ sync_plan.to_create_local[1].id \notin IdsOf(local_prompts)

\* C3: for every id in both snapshots whose local record is strictly newer:
\* when the remote record has a record_id, to_update_remote holds exactly one
\* pair for the id, made of the remote record's record_id and the local record;
\* when it has none, no list holds the id; either way the id is in neither
\* to_create_local nor to_update_local.
C3_LocalNewerUpdatesRemote ==
    Planned =>
        \A x \in MatchedIds :
            LET l == TheRecord(local_prompts, x)
                r == TheRecord(remote_records, x)
            IN  l.updated_at > r.updated_at =>
                    /\ IF IsSome(r.record_id)
                       THEN /\ CountPairId(sync_plan.to_update_remote, x) = 1
                            /\ <<Unwrap(r.record_id), l>> \in Range(sync_plan.to_update_remote)
                       ELSE NoActionFor(x)
                    /\ x \notin IdsOf(sync_plan.to_create_local)
                    /\ x \notin IdsOf(sync_plan.to_update_local)

\* The local record carries another record_id than its remote row, and the
\* update is scheduled under the one of the remote row.
C3_Witness ==
    /\ Planned
    /\ \E x \in MatchedIds :
        LET l == TheRecord(local_prompts, x)
            r == TheRecord(remote_records, x)
        IN  /\ l.updated_at > r.updated_at
            /\ IsSome(l.record_id)
            /\ IsSome(r.record_id)
            /\ l.record_id # r.record_id
            /\ sync_plan.to_update_remote = <<(<<Unwrap(r.record_id), l>>)>>

\* C4: for every id in both snapshots whose remote record is strictly newer,
\* to_update_local holds exactly one entry for the id, the remote record, and
\* neither to_create_remote nor to_update_remote holds the id.
C4_RemoteNewerUpdatesLocal ==
    Planned =>
        \A x \in MatchedIds :
            LET l == TheRecord(local_prompts, x)
                r == TheRecord(remote_records, x)
            IN  r.updated_at > l.updated_at =>
                    /\ CountId(sync_plan.to_update_local, x) = 1
                    /\ r \in Range(sync_plan.to_update_local)
                    /\ x \notin IdsOf(sync_plan.to_create_remote)
                    /\ x \notin IdsOfPairs(sync_plan.to_update_remote)

C4_Witness ==
    /\ Planned
    /\ \E x \in MatchedIds :
        LET l == TheRecord(local_prompts, x)
            r == TheRecord(remote_records, x)
        IN  /\ r.updated_at > l.updated_at
            /\ sync_plan.to_update_local = <<r>>

\* C5: for every id in both snapshots with the same updated_at on both sides,
\* none of the four lists holds the id, whatever the record_id of the two
\* records.
C5_EqualTimeNoAction ==
    Planned =>
        \A x \in MatchedIds :
            LET l == TheRecord(local_prompts, x)
                r == TheRecord(remote_records, x)
            IN  l.updated_at = r.updated_at => NoActionFor(x)

\* Same updated_at, different record_id, and an empty plan.
C5_Witness ==
    /\ Planned
    /\ \E x \in MatchedIds :
        LET l == TheRecord(local_prompts, x)
            r == TheRecord(remote_records, x)
        IN  /\ l.updated_at = r.updated_at
            /\ l.record_id # r.record_id
    /\ sync_plan = EmptyPlan

\* Number of the four lists that hold id x.
ListsHolding(x) ==
    (IF x \in IdsOf(sync_plan.to_create_local) THEN 1 ELSE 0)
    + (IF x \in IdsOf(sync_plan.to_update_local) THEN 1 ELSE 0)
    + (IF x \in IdsOf(sync_plan.to_create_remote) THEN 1 ELSE 0)
    + (IF x \in IdsOfPairs(sync_plan.to_update_remote) THEN 1 ELSE 0)

\* C6 as stated: for every pair of snapshots, duplicated ids included, no id is
\* in two of the four lists (so none is in both to_update_local and
\* to_update_remote).
C6_ListsDisjointForAnyInput ==
    Planned => \A x \in Ids : ListsHolding(x) <= 1

\* C6 amended: an id that occurs at most once in each snapshot is in at most
\* one of the four lists, whatever the other rows of the snapshots are.
C6_ListsDisjointForUniqueIds ==
    Planned =>
        \A x \in Ids :
            (CountId(local_prompts, x) <= 1 /\ CountId(remote_records, x) <= 1) =>
                ListsHolding(x) <= 1

\* A remote snapshot with two rows of one id, and a plan with an action for
\* an id that occurs once.
C6_Witness ==
    /\ Planned
    /\ ~UniqueIds(remote_records)
    /\ \E x \in Ids :
        /\ CountId(local_prompts, x) = 1
        /\ CountId(remote_records, x) = 0
        /\ ListsHolding(x) = 1

\* ------------------------------------------------------------------------
\* Properties of the two commands
\* ------------------------------------------------------------------------
Count(ev) == Cardinality({i \in 1..Len(log) : log[i] = ev})

Requests == {"token_req", "list_req", "create_req", "update_req"}

\* The responses that can answer a request.
ResponsesTo(req) ==
    IF req = "token_req" THEN {"token_resp_ok", "token_resp_err"}
    ELSE IF req = "list_req" THEN {"list_resp_more", "list_resp_last", "list_resp_err"}
    ELSE IF req = "create_req" THEN {"create_resp_ok", "create_resp_err"}
    ELSE {"update_resp_ok", "update_resp_err"}

\* The value of inflight while a request awaits its response.
Awaiting(req) ==
    IF req = "token_req" THEN "token"
    ELSE IF req = "list_req" THEN "list"
    ELSE IF req = "create_req" THEN "create"
    ELSE "update"

\* A local create or update applied (perform_sync) or notified
\* (sync_with_local_data), delivered or not.
LocalCreateEvents == {"local_create", "local_create_lost"}
LocalUpdateEvents == {"local_update", "local_update_lost"}
LocalEvents == LocalCreateEvents \cup LocalUpdateEvents

\* Position of an event's stage in
\* token, list, plan, batch create, batch update, local creates, local updates.
StageOf(ev) ==
    IF ev \in {"token_req"} \cup ResponsesTo("token_req") THEN 1
    ELSE IF ev \in {"list_req"} \cup ResponsesTo("list_req") THEN 2
    ELSE IF ev = "plan" THEN 3
    ELSE IF ev \in {"create_req"} \cup ResponsesTo("create_req") THEN 4
    ELSE IF ev \in {"update_req"} \cup ResponsesTo("update_req") THEN 5
    ELSE IF ev \in LocalCreateEvents THEN 6
    ELSE 7

RemoteFailures ==
    {"token_resp_err", "list_resp_err", "create_resp_err", "update_resp_err"}

\* Token acquisition, the remote read or a remote write failed in this run.
FailureSeen == \E i \in 1..Len(log) : log[i] \in RemoteFailures

\* C7 as stated: when token acquisition, the remote read or a remote write
\* has failed, the command returns a result value (not an error) with
\* success = false and a message that carries the error.
C7_FailureReturnsResult ==
    (pc = "done" /\ FailureSeen) =>
        /\ ret.channel = "Ok"
        /\ ret.value.success = FALSE
        /\ ret.value.message[2] \in {"NetworkError", "FeishuApiError"}

\* What the code does keep of C7: trigger_sync for every such failure, and
\* sync_with_local_data for the failures of the two remote writes.
C7_HoldsOutsideEarlyFailures ==
    (/\ pc = "done"
     /\ FailureSeen
     /\ (entry = "trigger_sync"
         \/ (Count("token_resp_err") = 0 /\ Count("list_resp_err") = 0))) =>
        /\ ret.channel = "Ok"
        /\ ret.value.success = FALSE
        /\ ret.value.message[2] \in {"NetworkError", "FeishuApiError"}

\* C8 as stated: after a failed batch create the run issues no batch update
\* and no local create or update; after a failed batch update it issues no
\* local create or update.
C8_WriteFailureAborts ==
    \A i, j \in 1..Len(log) :
        i < j =>
            /\ log[i] = "create_resp_err" => log[j] \notin {"update_req"} \cup LocalEvents
            /\ log[i] = "update_resp_err" => log[j] \notin LocalEvents

\* C9: in one invocation the stages run in the order token, list pages, plan,
\* batch create, batch update, local creates, local updates; an invocation
\* that got past its configuration issues exactly one token request; there is
\* at most one batch create and one batch update; all pages are requested
\* before the plan; every request is followed by its response before anything
\* else happens; every write comes after the response of the last page.
C9_StageOrder ==
    /\ \A i, j \in 1..Len(log) : i < j => StageOf(log[i]) <= StageOf(log[j])
    /\ Count("token_req") <= 1
    /\ (config = "enabled" /\ pc \notin {"idle", "token"}) => Count("token_req") = 1
    /\ Count("plan") <= 1
    /\ Count("create_req") <= 1
    /\ Count("update_req") <= 1
    /\ Count("local_create") + Count("local_create_lost") <= 1
    /\ Count("local_update") + Count("local_update_lost") <= 1
    /\ pc = "plan" => Count("list_req") = NumPages(remote_table)
    /\ \A i \in 1..Len(log) :
        log[i] \in Requests =>
            IF i = Len(log)
            THEN inflight = Awaiting(log[i])
            ELSE log[i + 1] \in ResponsesTo(log[i])
    /\ inflight # "none" => (log # << >> /\ log[Len(log)] \in Requests)
    /\ \A j \in 1..Len(log) :
        log[j] \in {"plan", "create_req", "update_req"} \cup LocalEvents =>
            \E i \in 1..(j - 1) : log[i] = "list_resp_last"

\* A finished run that read two pages, then issued both remote writes and a
\* local write.
C9_Witness ==
    /\ pc = "done"
    /\ Count("token_req") = 1
    /\ Count("list_req") >= 2
    /\ Count("create_req") = 1
    /\ Count("update_req") = 1
    /\ \E i \in 1..Len(log) : log[i] \in LocalEvents

\* C10: in every result a command returns, with success true or false,
\* total_processed is the sum of the four counts.
C10_TotalIsSum ==
    ret.channel = "Ok" =>
        ret.value.total_processed =
            ret.value.local_created + ret.value.local_updated
            + ret.value.remote_created + ret.value.remote_updated

\* A failed result with counts that are not all zero.
C10_Witness ==
    /\ ret.channel = "Ok"
    /\ ret.value.success = FALSE
    /\ ret.value.remote_updated > 0

\* ------------------------------------------------------------------------
\* Where the records of the plan come from, and what the join reads
\* ------------------------------------------------------------------------
RecordsOfPairs(pairs) == {pairs[i][2] : i \in 1..Len(pairs)}

\* C18: the planner originates no record: every record scheduled for a
\* remote create or a remote update is an unmodified local record, every
\* record scheduled for a local create or a local update is an unmodified
\* remote record, and no id of the plan is missing from both snapshots.
C18_PlanCopiesSnapshots ==
    Planned =>
        /\ Range(sync_plan.to_create_remote) \subseteq Range(local_prompts)
        /\ RecordsOfPairs(sync_plan.to_update_remote) \subseteq Range(local_prompts)
        /\ Range(sync_plan.to_create_local) \subseteq Range(remote_records)
        /\ Range(sync_plan.to_update_local) \subseteq Range(remote_records)
        /\ \A x \in Ids :
               ~NoActionFor(x) =>
                   x \in IdsOf(local_prompts) \cup IdsOf(remote_records)

\* A remote update of a local record whose record_id is not the remote
\* one, next to a local create.
C18_Witness ==
    /\ Planned
    /\ sync_plan.to_create_local # << >>
    /\ \E i \in 1..Len(sync_plan.to_update_remote) :
           sync_plan.to_update_remote[i][2].record_id
               # Some(sync_plan.to_update_remote[i][1])

\* The local snapshot with the record_id of every record taken away.  Two
\* snapshots that differ only in record_id values have the same one.
Unkeyed(local_records) ==
    [i \in 1..Len(local_records) |->
        PromptRecord(local_records[i].id, local_records[i].updated_at, None)]

IdSeq(records) == [i \in 1..Len(records) |-> records[i].id]

KeyedIds(pairs) == [i \in 1..Len(pairs) |-> <<pairs[i][1], pairs[i][2].id>>]

\* Two plans schedule the same ids in the same lists, and the same key for
\* each remote update.
SameActions(p, q) ==
    /\ IdSeq(p.to_create_remote) = IdSeq(q.to_create_remote)
    /\ KeyedIds(p.to_update_remote) = KeyedIds(q.to_update_remote)
    /\ IdSeq(p.to_create_local) = IdSeq(q.to_create_local)
    /\ IdSeq(p.to_update_local) = IdSeq(q.to_update_local)

\* C19: the plan joins by id and never by record_id: whatever record_id the
\* local records carry, that of another remote row included, each id lands
\* in the same list as in the run where they carry none, and each remote
\* update is keyed by the record_id of the remote record with the same id.
C19_JoinIgnoresLocalKeys ==
    Planned =>
        /\ SameActions(calculate_sync_plan(Unkeyed(local_prompts), remote_records),
                       sync_plan)
        /\ \A i \in 1..Len(sync_plan.to_update_remote) :
               \E j \in 1..Len(remote_records) :
                   /\ remote_records[j].id = sync_plan.to_update_remote[i][2].id
                   /\ remote_records[j].record_id
                          = Some(sync_plan.to_update_remote[i][1])

\* A local record carries the record_id of a remote row with another id,
\* and is created remotely all the same.
C19_Witness ==
    /\ Planned
    /\ \E i \in 1..Len(local_prompts), j \in 1..Len(remote_records) :
           /\ IsSome(local_prompts[i].record_id)
           /\ local_prompts[i].record_id = remote_records[j].record_id
           /\ local_prompts[i].id # remote_records[j].id
           /\ local_prompts[i].id \in IdsOf(sync_plan.to_create_remote)
           /\ remote_records[j].id \in IdsOf(sync_plan.to_create_local)

\* ------------------------------------------------------------------------
\* The reader: pages, requests, failures
\* ------------------------------------------------------------------------
\* The records of the rows that parse, in row order, each with its record_id.
Decodable(row) == IsSome(row.id) /\ IsSome(row.updatedAt)

ExpectedRecords(table) ==
    LET good == SelectSeq([i \in 1..Len(table) |-> i],
                          LAMBDA i : Decodable(table[i]))
    IN  [k \in 1..Len(good) |->
            PromptRecord(Unwrap(table[good[k]].id),
                         Unwrap(table[good[k]].updatedAt), Some(good[k]))]

\* Every response was a page of the chain: a data envelope whose has_more
\* comes with the page_token of the next page.
ChainFollowed ==
    \A k \in 1..Len(responses) :
        /\ responses[k].outcome = "ok"
        /\ responses[k].has_more => IsSome(responses[k].page_token)

C12_LaterRequestsCarryToken ==
    \A k \in 1..Len(requests) :
        /\ requests[k].page_size = 500
        /\ k = 1 => ~IsSome(requests[k].page_token)
        /\ k > 1 => /\ IsSome(requests[k].page_token)
                    /\ requests[k].page_token = responses[k - 1].page_token

\* What holds of the code: a later request carries what the response before
\* it carried as page_token, a token or none.
C12_RequestsEchoLastResponse ==
    \A k \in 1..Len(requests) :
        /\ requests[k].page_size = 500
        /\ k = 1 => ~IsSome(requests[k].page_token)
        /\ k > 1 => requests[k].page_token = responses[k - 1].page_token

\* The error the command returned, "none" when it returned none.
ErrorReturned ==
    IF ret.channel = "Err" THEN ret.value[2]
    ELSE IF ret.channel = "Ok" THEN ret.value.message[2]
    ELSE "none"

ApiFailure(answer) == answer.outcome \in {"api_error", "no_data"}

\* C13: a page whose response has a non-zero code or no data envelope ends
\* the read with a remote API error: no records are returned, those of
\* earlier pages included, and no further page is requested.
C13_ListFailureReturnsNothing ==
    \A k \in 1..Len(responses) :
        ApiFailure(responses[k]) =>
            /\ k = Len(responses)
            /\ Len(requests) = k
            /\ inflight = "none"
            /\ pc = "done"
            /\ remote_records = << >>
            /\ ErrorReturned = "FeishuApiError"

\* The failure comes after a page whose records had been collected.
C13_Witness ==
    /\ Len(responses) >= 2
    /\ ApiFailure(responses[Len(responses)])
    /\ all_records # << >>
    /\ remote_records = << >>
    /\ pc = "done"

\* ------------------------------------------------------------------------
\* Response envelopes
\* ------------------------------------------------------------------------
Called(fn) == call.fn = fn /\ returned.channel # "none"

NonZeroCode == IsSome(reply.code) /\ Unwrap(reply.code) # 0

\* C14: token acquisition fails with a remote API error whenever the
\* response carries a non-zero code, token and expiry in it or not; a token
\* is returned only without a non-zero code and with a payload that parses;
\* 10014, 10013, 99991663 and 99991664 get their own message, every other
\* non-zero code a generic one holding the code.
C14_TokenRefusedOnCode ==
    Called("get_tenant_access_token") =>
        /\ NonZeroCode =>
            /\ returned.channel = "Err"
            /\ returned.value.kind = "FeishuApiError"
            /\ LET code == Unwrap(reply.code)
                   msg == returned.value.msg
               IN  CASE code = 10014 -> msg = Fixed("invalid app secret")
                     [] code = 10013 -> msg = Fixed("invalid app id")
                     [] code = 99991663 -> msg = Fixed("tenant access token invalid")
                     [] code = 99991664 -> msg = Fixed("tenant access token expired")
                     [] OTHER -> msg.code = code /\ msg.form # "{}"
        /\ returned.channel = "Ok" =>
            /\ ~NonZeroCode
            /\ TokenPayload(reply)
            /\ returned.value = Unwrap(reply.tenant_access_token)

\* A non-zero code next to a well-formed token and expiry: refused.
C14_Witness ==
    /\ Called("get_tenant_access_token")
    /\ reply.code = Some(10014)
    /\ TokenPayload(reply)
    /\ returned.channel = "Err"

\* The meaning the specification gives each curated code.
CuratedCodes == {10014, 10013, 99991663, 99991664, 99991672,
                 1254051, 1254032, 1254010}

CuratedMeaning(code) ==
    CASE code = 10014 -> Fixed("invalid app secret")
      [] code = 10013 -> Fixed("invalid app id")
      [] code = 99991663 -> Fixed("tenant access token invalid")
      [] code = 99991664 -> Fixed("tenant access token expired")
      [] code = 99991672 -> Fixed("insufficient permission")
      [] code = 1254051 -> Fixed("table container not found or deleted")
      [] code = 1254032 -> Fixed("application has no access to the table")
      [] code = 1254010 -> Fixed("data table not found")

\* The call read the code of the response: it was given records to send,
\* or sends a request whatever it is given.
ReadTheCode ==
    /\ returned.channel # "none"
    /\ call.fn \in {"create_remote_records", "update_remote_records"} => call.arg > 0
    /\ call.fn \in {"list_all_records", "update_remote_records"} => TypedEnvelope(reply)

\* C15: the curated table applies to every envelope: token, list, batch
\* create and batch update each report the curated meaning of 10014, 10013,
\* 99991663, 99991664, 99991672, 1254051, 1254032 and 1254010, and a generic
\* message with the code and the msg for any other non-zero code.
C15_CuratedTableEverywhere ==
    (ReadTheCode /\ NonZeroCode) =>
        /\ returned.channel = "Err"
        /\ returned.value.kind = "FeishuApiError"
        /\ LET code == Unwrap(reply.code) IN
           IF code \in CuratedCodes
           THEN returned.value.msg = CuratedMeaning(code)
           ELSE /\ returned.value.code = code
                /\ returned.value.msg.msg = MsgOr(reply)

\* What holds of the code: 1254051 on a list request is reported as the
\* table container not found or deleted.
C15_ListNamesMissingContainer ==
    (Called("list_all_records") /\ TypedEnvelope(reply)
        /\ reply.code = Some(1254051)) =>
        /\ returned.channel = "Err"
        /\ returned.value.msg = Fixed("table container not found or deleted")

WellFormedItem ==
    /\ Called("parse_record_from_feishu")
    /\ call.arg.record_id.t = "text"
    /\ IsSome(call.arg.fields)

\* The value is no integer, or no millisecond a timestamp can hold.
NoTimestamp(value) == value.t # "i64" \/ value.n < 0 \/ value.n > MaxMillis

\* C16: an item with a remote identifier and a field bag fails to decode
\* when id is missing or no text and when createdAt or updatedAt is
\* missing, no integer or no valid millisecond timestamp; it decodes when
\* title, content, tags, isFavorite or lastUsed is missing, to "untitled",
\* "", "[]", false and absent; is_favorite is true exactly for the text
\* "yes"; a lastUsed that cannot be read gives absent and never a failure.
C16_DecodeRequiredAndDefaults ==
    WellFormedItem =>
        LET bag == Unwrap(call.arg.fields)
            record == returned.value
        IN  /\ returned.channel = "Err" <=>
                   \/ bag.id.t # "text"
                   \/ NoTimestamp(bag.createdAt)
                   \/ NoTimestamp(bag.updatedAt)
            /\ returned.channel = "Ok" =>
                   /\ bag.title = Absent => record.title = "untitled"
                   /\ bag.content = Absent => record.content = ""
                   /\ bag.tags = Absent => record.tags = "[]"
                   /\ record.is_favorite <=> bag.isFavorite = Text("yes")
                   /\ NoTimestamp(bag.lastUsed) => record.last_used = None
                   /\ ~NoTimestamp(bag.lastUsed) =>
                          record.last_used = Some(DateTime(bag.lastUsed.n, 0))
                   /\ record.id = bag.id.s
                   /\ record.record_id = Some(call.arg.record_id.s)

\* Every optional field is missing and the item decodes to the defaults.
C16_Witness ==
    /\ WellFormedItem
    /\ LET bag == Unwrap(call.arg.fields) IN
       /\ bag.title = Absent
       /\ bag.content = Absent
       /\ bag.tags = Absent
       /\ bag.isFavorite = Absent
       /\ bag.lastUsed = Absent
    /\ returned.channel = "Ok"
    /\ returned.value.title = "untitled"
    /\ ~returned.value.is_favorite
    /\ returned.value.last_used = None

\* The fields of a record that the round trip is about.
Payload(record) ==
    <<record.id, record.title, record.content, record.tags, record.is_favorite,
      record.created_at, record.updated_at, record.last_used>>

\* C17: encoding any record and decoding the resulting item gives back the
\* same id, title, content, tags, is_favorite, created_at, updated_at and
\* last_used.
C17_RoundTripExact ==
    Called("encode") =>
        /\ returned.channel = "Ok"
        /\ Payload(returned.value) = Payload(call.arg)

\* The timestamp cut to whole milliseconds.
WholeMillis(t) == DateTime(t.millis, 0)

\* C17 as amended: the round trip gives back id, title, content, tags and
\* is_favorite, and each timestamp cut to whole milliseconds, so a record
\* whose timestamps are whole milliseconds comes back unchanged.
C17_RoundTripToMilliseconds ==
    Called("encode") =>
        LET sent == call.arg
            back == returned.value
        IN  /\ returned.channel = "Ok"
            /\ back.id = sent.id
            /\ back.title = sent.title
            /\ back.content = sent.content
            /\ back.tags = sent.tags
            /\ back.is_favorite = sent.is_favorite
            /\ back.created_at = WholeMillis(sent.created_at)
            /\ back.updated_at = WholeMillis(sent.updated_at)
            /\ back.last_used = IF IsSome(sent.last_used)
                                THEN Some(WholeMillis(Unwrap(sent.last_used)))
                                ELSE None
            /\ back.record_id = Some("rec1")

\* A favourite with last_used present and whole-millisecond timestamps
\* comes back unchanged.
C17_Witness ==
    /\ Called("encode")
    /\ call.arg.is_favorite
    /\ IsSome(call.arg.last_used)
    /\ call.arg.created_at.sub = 0
    /\ call.arg.updated_at = DateTime(1, 0)
    /\ Unwrap(call.arg.last_used).sub = 0
    /\ returned.channel = "Ok"
    /\ Payload(returned.value) = Payload(call.arg)

\* ------------------------------------------------------------------------
\* The batch update and its count
\* ------------------------------------------------------------------------
\* Length of the record list in the body, 0 for a body without data.
ListedIn(body) == IF IsSome(body.records) THEN Unwrap(body.records) ELSE 0

\* C21: the pairs of the plan go out in one batch_update request, each
\* addressing the row of its record_id; the update succeeds only on a body
\* whose code is 0 and then returns the number of records the body lists,
\* 0 without data, whatever the number of pairs; remote_updated of the
\* result is that number.
C21_UpdateCountsResponse ==
    /\ Count("update_req") <= 1
    /\ "update_resp_ok" \in Range(log) =>
           /\ reply.code = Some(0)
           /\ sync_result.remote_updated = ListedIn(reply)
           /\ \A i \in 1..Len(sync_plan.to_update_remote) :
                  LET key == sync_plan.to_update_remote[i][1]
                      record == sync_plan.to_update_remote[i][2]
                  IN  /\ key \in 1..Len(remote_table)
                      /\ remote_table[key] = Row(Some(record.id),
                                                 Some(record.updated_at))
    /\ ("update_resp_err" \in Range(log) /\ reply # NoReply) =>
           /\ reply.code # Some(0)
           /\ sync_result.remote_updated = 0
    /\ (ret.channel = "Ok" /\ entry = "sync_with_local_data") =>
           ret.value.remote_updated = sync_result.remote_updated

\* One pair was sent, the body lists no record, and the result counts 0.
C21_Witness ==
    /\ "update_resp_ok" \in Range(log)
    /\ Len(sync_plan.to_update_remote) = 1
    /\ ListedIn(reply) = 0
    /\ ret.channel = "Ok"
    /\ ret.value.remote_updated = 0
    /\ ret.value.success

\* ------------------------------------------------------------------------
\* The table reference
\* ------------------------------------------------------------------------
\* The part right after the first base or wiki part, << >> when the URL
\* has none.
AfterBase(url) ==
    LET at == {i \in 1..Len(url) : url[i] \in {<<"base">>, <<"wiki">>}}
        first == CHOOSE k \in at : \A j \in at : k <= j
    IN  IF at = {} \/ first = Len(url) THEN << >> ELSE url[first + 1]

\* What that part holds up to its ?: the container id.
ContainerOf(url) ==
    LET part == AfterBase(url) IN
    IF Find(part, "?") > 0 THEN SubSeq(part, 1, Find(part, "?") - 1) ELSE part

\* The values that part gives the parameter table in its query string.
TablesOf(url) ==
    LET part == AfterBase(url)
        query == IF Find(part, "?") > 0
                 THEN SubSeq(part, Find(part, "?") + 1, Len(part)) ELSE << >>
        params == Split(query, "&")
    IN  {SubSeq(params[k], 3, Len(params[k])) :
            k \in {k \in 1..Len(params) :
                      Len(params[k]) >= 2 /\ params[k][1] = "table"
                      /\ params[k][2] = "="}}

\* C22: the parse returns a pair only for a URL that supplies both a
\* container id, the part after the first base or wiki up to ?, and a table
\* id, the value of table in the query of that part; without a container
\* id it is a URL-parse error that names the container id, and without a
\* table id one that names the table id.
C22_PairOnlyWhenBothSupplied ==
    Called("parse_feishu_base_url") =>
        LET url == call.arg IN
        /\ returned.channel = "Ok" =>
               /\ ContainerOf(url) # << >>
               /\ returned.value[1] = ContainerOf(url)
               /\ returned.value[2] \in TablesOf(url) \ {<< >>}
        /\ ContainerOf(url) = << >> =>
               returned = Err(UrlParseError("app_token"))
        /\ (ContainerOf(url) # << >> /\ TablesOf(url) \subseteq {<< >>}) =>
               returned = Err(UrlParseError("table_id"))

\* What holds of the code: a pair is returned exactly when a part follows
\* the first base or wiki and its query sets table, empty values included.
C22_PairWhenPartAndParameter ==
    Called("parse_feishu_base_url") =>
        LET url == call.arg
            follows == \E i \in 1..Len(url) :
                           url[i] \in {<<"base">>, <<"wiki">>} /\ i < Len(url)
        IN  /\ returned.channel = "Ok" <=> (follows /\ TablesOf(url) # {})
            /\ returned.channel = "Ok" =>
                   /\ returned.value[1] = ContainerOf(url)
                   /\ returned.value[2] \in TablesOf(url)
            /\ ~follows => returned = Err(UrlParseError("app_token"))
            /\ (follows /\ TablesOf(url) = {}) =>
                   returned = Err(UrlParseError("table_id"))

\* ------------------------------------------------------------------------
\* The local side of a run
\* ------------------------------------------------------------------------
\* C23: in sync_with_local_data the step of the local creates sets
\* local_created to the length of the plan's local-create list and the
\* step of the local updates sets local_updated to the length of its
\* local-update list, whether or not the event is delivered; neither step
\* changes the success flag or the message, and the result returned is the
\* one so counted.
C23_LocalCountsArePlanLengths ==
    [][(entry = "sync_with_local_data" /\ pc \in {"local_create", "local_update"}) =>
          /\ sync_result'.success = sync_result.success
          /\ sync_result'.message = sync_result.message
          /\ pc = "local_create" =>
                 sync_result'.local_created = Len(sync_plan.to_create_local)
          /\ pc = "local_update" =>
                 /\ sync_result'.local_created = Len(sync_plan.to_create_local)
                 /\ sync_result'.local_updated = Len(sync_plan.to_update_local)
                 /\ ret' = Ok(sync_result')]_vars

C23_Witness ==
    /\ entry = "sync_with_local_data"
    /\ pc = "done"
    /\ "local_create_lost" \in Range(log)
    /\ "local_update_lost" \in Range(log)
    /\ ret.channel = "Ok"
    /\ ret.value.success
    /\ ret.value.local_created = 1
    /\ ret.value.local_updated = 1

\* ------------------------------------------------------------------------
\* trigger_sync and the remote writes
\* ------------------------------------------------------------------------
\* What trigger_sync never does: it issues no batch create and no batch
\* update, its local snapshot is empty, its plan has nothing but local
\* creates, and a result it returns counts no remote write.
TriggerSyncWritesNothing ==
    entry = "trigger_sync" =>
        /\ Count("create_req") = 0
        /\ Count("update_req") = 0
        /\ local_prompts = get_local_prompts
        /\ local_prompts = << >>
        /\ sync_plan.to_create_remote = << >>
        /\ sync_plan.to_update_remote = << >>
        /\ sync_plan.to_update_local = << >>
        /\ ret.channel = "Ok" =>
               ret.value.remote_created = 0 /\ ret.value.remote_updated = 0

\* C29: trigger_sync issues no batch create and no batch update: its local
\* snapshot is always empty, its plan puts every decoded remote record in
\* the local-create list, and every result it returns has remote_created = 0
\* and remote_updated = 0.
C29_TriggerSyncCreatesEveryRecordLocally ==
    /\ TriggerSyncWritesNothing
    /\ (entry = "trigger_sync" /\ Planned) =>
           \A i \in 1..Len(remote_records) :
               remote_records[i] \in Range(sync_plan.to_create_local)

C29_Witness ==
    /\ entry = "trigger_sync"
    /\ pc = "done"
    /\ ret.channel = "Ok"
    /\ ret.value.success
    /\ ret.value.local_created = 2
    /\ ret.value.remote_created = 0
    /\ ret.value.remote_updated = 0
    /\ Len(remote_records) = 2

\* ------------------------------------------------------------------------
\* The remote key of the records read
\* ------------------------------------------------------------------------
\* C30: every record the reader keeps has a record_id, an item without one
\* is dropped; so the plan on the reader's records holds a remote update
\* for every local record newer than the remote record of its id: the
\* branch that skips the update for want of a record_id is never taken.
C30_ReaderRecordsAreKeyed ==
    Called("calculate_sync_plan") =>
        LET records == returned.value.remote_records
            plan == returned.value.sync_plan
            items == call.arg.items
            local == call.arg.local_prompts
            remote_map == HashMapById(records)
        IN  /\ \A i \in 1..Len(records) : IsSome(records[i].record_id)
            /\ Len(records) =
                   Cardinality({k \in 1..Len(items) :
                                   /\ IsSome(items[k].record_id)
                                   /\ Decodable(items[k].fields)})
            /\ \A i \in 1..Len(local) :
                   (/\ local[i].id \in DOMAIN remote_map
                    /\ local[i].updated_at > remote_map[local[i].id].updated_at) =>
                       \E k \in 1..Len(plan.to_update_remote) :
                           plan.to_update_remote[k] =
                               <<Unwrap(remote_map[local[i].id].record_id), local[i]>>

\* An item without record_id and with the id of a newer local record is
\* dropped, and the local record is updated on the row that has a key.
C30_Witness ==
    /\ Called("calculate_sync_plan")
    /\ Len(call.arg.items) = 2
    /\ Len(returned.value.remote_records) = 1
    /\ \E k \in 1..2 : /\ ~IsSome(call.arg.items[k].record_id)
                       /\ Decodable(call.arg.items[k].fields)
    /\ Len(returned.value.sync_plan.to_update_remote) = 1

\* ------------------------------------------------------------------------
\* A batch create that is repeated
\* ------------------------------------------------------------------------
RowsWithId(table, x) == Cardinality({k \in 1..Len(table) : table[k].id = Some(x)})

\* C25: every batch create the remote commits appends one row per record
\* submitted, whatever the table holds; so when the response to a committed
\* batch is lost and the call is made again with the same records and
\* succeeds, the table has two rows for the id of each record.
C25_CreateAgainDuplicates ==
    call.fn = "create_remote_records" =>
        LET records == call.arg
            n == Len(records)
            commits == Count("create_resp_ok") + Count("create_resp_lost")
            base == Len(remote_table) - commits * n
        IN  /\ base >= 0
            /\ \A c \in 0..(commits - 1) : \A k \in 1..n :
                   remote_table[base + c * n + k] = EncodeFields(records[k])
            /\ (Count("create_resp_lost") >= 1 /\ returned.channel = "Ok") =>
                   \A k \in 1..n : RowsWithId(remote_table, records[k].id) >= 2

\* A table that starts empty: the lost commit and the repeated call leave
\* exactly two rows for each of two records.
C25_Witness ==
    /\ call.fn = "create_remote_records"
    /\ Len(call.arg) = 2
    /\ Count("create_resp_lost") = 1
    /\ Count("create_resp_ok") = 1
    /\ returned.channel = "Ok"
    /\ returned.value = 2
    /\ Len(remote_table) = 4
    /\ \A k \in 1..2 : RowsWithId(remote_table, call.arg[k].id) = 2

\* ------------------------------------------------------------------------
\* Invocations that overlap
\* ------------------------------------------------------------------------
\* Both invocations read the table before either wrote to it.
BothReadFirst ==
    /\ \A p \in Invocations : \E i \in 1..Len(log) : log[i] = <<p, "read">>
    /\ \A i, j \in 1..Len(log) :
           (log[i][2] = "read" /\ log[j][2] \in {"create", "update"}) => i < j

\* C24: nothing keeps two invocations apart: when both read the remote
\* table before either writes, both have the same snapshot and the same
\* plan and both apply it, and for a record that only the local store has
\* both create a row, so that the table ends with two rows of that id.
C24_OverlapCreatesTwice ==
    BothReadFirst =>
        /\ remote_records[1] = remote_records[2]
        /\ (\A p \in Invocations : pc[p] \notin {"list", "plan"}) =>
               sync_plan[1] = sync_plan[2]
        /\ (\A p \in Invocations : pc[p] \in {"update", "done"}) =>
               \A k \in 1..Len(local_prompts) :
                   local_prompts[k].id \notin IdsOf(remote_records[1]) =>
                       /\ \A p \in Invocations :
                              local_prompts[k] \in Range(sync_plan[p].to_create_remote)
                       /\ RowsWithId(remote_table, local_prompts[k].id) = 2

C24_Witness ==
    /\ BothReadFirst
    /\ \A p \in Invocations : pc[p] = "done"
    /\ remote_records[1] = << >>
    /\ Len(local_prompts) = 1
    /\ Len(remote_table) = 2
    /\ RowsWithId(remote_table, local_prompts[1].id) = 2

\* ------------------------------------------------------------------------
\* The end of the remote read
\* ------------------------------------------------------------------------
\* C26: against a remote that holds a finite table and answers each
\* request by its page_token alone, list_all_records returns, with the
\* records or with an error; a page with has_more = true and no page_token
\* is one of the answers.
C26_ListAllReturns == <>(returned.channel # "none")

\* What holds: list_all_records returns when no page it is given has
\* has_more = true without a page_token.
C26_ListAllReturnsOnChains ==
    (\A k \in 0..MaxReaderRows : call.arg[k] # "no_token") ~> (returned.channel # "none")

\* ------------------------------------------------------------------------
\* The ids of the remote table
\* ------------------------------------------------------------------------
\* C28: with invocations one after another, local snapshots of unique ids
\* and a table that starts with unique ids, no two rows of the table carry
\* the same id after any number of invocations, whatever the rows hold, a
\* row with an id that does not decode included.
C28_RemoteIdsStayUnique == UniqueRowIds(remote_table)

\* What holds: the ids stay unique as long as every row that has an id
\* decodes.
C28_UniqueWhenRowsDecode ==
    (\A k \in 1..Len(remote_table) :
        IsSome(remote_table[k].id) => Decodable(remote_table[k]))
    => UniqueRowIds(remote_table)

\* ------------------------------------------------------------------------
\* Convergence
\* ------------------------------------------------------------------------
\* C27: after a run whose two batches succeed and whose events the local
\* store applies, the run that follows plans nothing: its four lists are
\* empty, for stored records with an updated_at of any precision and for
\* rows decoded with default values.
C27_SecondRunPlansNothing ==
    Count("run") >= 2 => sync_plan = EmptyPlan

\* What holds: the second run plans nothing when every updated_at of the
\* local store is a whole number of milliseconds.
C27_ConvergesOnWholeMilliseconds ==
    (/\ Count("run") >= 2
     /\ \A k \in 1..Len(local_prompts) : local_prompts[k].updated_at.sub = 0)
    => sync_plan = EmptyPlan

\* ------------------------------------------------------------------------
\* The two encoders
\* ------------------------------------------------------------------------
\* C31: for every record the fields batch create builds equal the fields
\* batch update builds: id, title, content and tags as text, isFavorite as
\* one of the two tokens, the one for yes exactly when is_favorite is set,
\* createdAt and updatedAt as integer milliseconds, and lastUsed as integer
\* milliseconds when last_used is present and left out, never null, when
\* it is not.
C31_EncodersAgree ==
    Called("fields") =>
        LET record == call.arg
            created == returned.value.batch_create
            updated == returned.value.batch_update
        IN  /\ created = updated
            /\ \A bag \in {created, updated} :
                   /\ bag.id = Text(record.id)
                   /\ bag.title = Text(record.title)
                   /\ bag.content = Text(record.content)
                   /\ bag.tags = Text(record.tags)
                   /\ bag.isFavorite \in {Text("yes"), Text("no")}
                   /\ bag.isFavorite = Text("yes") <=> record.is_favorite
                   /\ bag.createdAt = Number(record.created_at.millis)
                   /\ bag.updatedAt = Number(record.updated_at.millis)
                   /\ IsSome(record.last_used) =>
                          bag.lastUsed = Number(Unwrap(record.last_used).millis)
                   /\ ~IsSome(record.last_used) => bag.lastUsed = Absent

\* A favorite never used: both requests leave lastUsed out.
C31_Witness ==
    /\ Called("fields")
    /\ call.arg.is_favorite
    /\ ~IsSome(call.arg.last_used)
    /\ call.arg.updated_at.sub > 0
    /\ returned.value.batch_update.lastUsed = Absent
    /\ returned.value.batch_create.lastUsed = Absent
    /\ returned.value.batch_update.isFavorite = Text("yes")

====
